---------------------------- MODULE Spec2Model ----------------------------
(***************************************************************************)
(* A state-machine model of src/src/App.jsx: the staging queues, the       *)
(* create forms, role detection from permissions and the deployment        *)
(* engine of the vault administration console.                             *)
(*                                                                         *)
(* JavaScript values are modelled as follows.  Strings are strings; the    *)
(* numbers typed into number inputs and the retention numbers of the       *)
(* mirrors are strings of digits; null and undefined are the strings       *)
(* Null and Undefined.  An object whose key order matters (a permission    *)
(* mapping) is the sequence of its [key, value] entries in insertion       *)
(* order.  One action is one run-to-completion turn of the event loop: an  *)
(* event handler, or the continuation of an async function from one await  *)
(* to the next.                                                            *)
(***************************************************************************)
EXTENDS Integers, Sequences, FiniteSets, TLC

Null == "null"
Undefined == "undefined"

\* The text of a string after String.prototype.trim(): the form values of the
\* model are either blank or carry no surrounding white space.
Trim(s) == IF s = " " THEN "" ELSE s

\* JavaScript truthiness of a form string.
Truthy(s) == s # "" /\ s # Null /\ s # Undefined

RECURSIVE SeqToSet(_)
SeqToSet(s) == IF s = <<>> THEN {} ELSE {Head(s)} \cup SeqToSet(Tail(s))

\* Array.prototype.filter((_, i) => i !== idx), idx counted from 1 here.
RemoveAt(s, idx) == [i \in 1..(Len(s) - 1) |-> IF i < idx THEN s[i] ELSE s[i + 1]]

-----------------------------------------------------------------------------
(* Permissions: PERMISSION_KEYS, PERM_TEMPLATES, detectRoleFromPermissions. *)

PERMISSION_KEYS ==
  << "UseAccounts", "RetrieveAccounts", "ListAccounts", "AddAccounts",
     "UpdateAccountContent", "UpdateAccountProperties",
     "InitiateCPMAccountManagementOperations", "SpecifyNextAccountContent",
     "RenameAccounts", "DeleteAccounts", "UnlockAccounts", "ManageSafe",
     "ManageSafeMembers", "BackupSafe", "ViewAuditLog", "ViewSafeMembers",
     "AccessWithoutConfirmation", "CreateFolders", "DeleteFolders",
     "MoveAccountsAndFolders", "RequestsAuthorizationLevel1",
     "RequestsAuthorizationLevel2" >>

NumPermissionKeys == Len(PERMISSION_KEYS)

\* An object literal that lists the 22 keys in the order of PERMISSION_KEYS
\* (every template literal does) with exactly the keys of trueKeys set true.
PermLiteral(trueKeys) ==
  [i \in 1..NumPermissionKeys |->
     [key |-> PERMISSION_KEYS[i], value |-> PERMISSION_KEYS[i] \in trueKeys]]

AllButAuthorizationLevels ==
  SeqToSet(PERMISSION_KEYS) \ {"RequestsAuthorizationLevel1", "RequestsAuthorizationLevel2"}

\* Object.entries(PERM_TEMPLATES): the templates in declaration order.
PERM_TEMPLATES ==
  << [name |-> "PAM", perms |-> PermLiteral(AllButAuthorizationLevels)],
     [name |-> "SM-HOLDER", perms |-> PermLiteral(
        {"ListAccounts", "AddAccounts", "UpdateAccountProperties", "RenameAccounts",
         "DeleteAccounts", "ManageSafeMembers", "ViewAuditLog", "ViewSafeMembers",
         "CreateFolders", "DeleteFolders", "MoveAccountsAndFolders"})],
     [name |-> "SM-PROV", perms |-> PermLiteral(
        {"UseAccounts", "RetrieveAccounts", "ListAccounts", "ViewSafeMembers",
         "AccessWithoutConfirmation"})],
     [name |-> "SM-APP", perms |-> PermLiteral(
        {"UseAccounts", "RetrieveAccounts", "ListAccounts", "AddAccounts",
         "UpdateAccountContent", "UpdateAccountProperties",
         "InitiateCPMAccountManagementOperations", "SpecifyNextAccountContent",
         "RenameAccounts", "DeleteAccounts", "UnlockAccounts", "ViewAuditLog",
         "ViewSafeMembers", "CreateFolders"})],
     [name |-> "NONE", perms |-> PermLiteral({})],
     [name |-> "FULL", perms |-> PermLiteral(AllButAuthorizationLevels)] >>

TemplateNames == {PERM_TEMPLATES[i].name : i \in 1..Len(PERM_TEMPLATES)}

\* PERM_TEMPLATES[name]
TemplatePerms(name) ==
  PERM_TEMPLATES[CHOOSE i \in 1..Len(PERM_TEMPLATES) : PERM_TEMPLATES[i].name = name].perms

\* {}: the object with no keys.
EmptyObject == <<>>

HasKey(obj, k) == \E i \in 1..Len(obj) : obj[i].key = k

\* obj[k] || false, as the checkboxes read a permission.
PermChecked(obj, k) == \E i \in 1..Len(obj) : obj[i].key = k /\ obj[i].value

\* { ...obj, [k]: v }: an own key keeps its place, a new key goes last.
SpreadSet(obj, k, v) ==
  IF HasKey(obj, k)
  THEN [i \in 1..Len(obj) |-> IF obj[i].key = k THEN [key |-> k, value |-> v] ELSE obj[i]]
  ELSE Append(obj, [key |-> k, value |-> v])

\* JSON.stringify of a permission mapping: the text lists the entries in the
\* object's key order, so it is the sequence of "key":value pairs.
JSONStringify(obj) == [i \in 1..Len(obj) |-> <<obj[i].key, IF obj[i].value THEN "true" ELSE "false">>]

\* JSON.stringify(permissions) === JSON.stringify(rolePerms)
TemplateMatches(permissions, rolePerms) ==
  JSONStringify(permissions) = JSONStringify(rolePerms)

\* detectRoleFromPermissions: the first template, in declaration order, whose
\* JSON text equals that of the input; 'Custom' when none does.
detectRoleFromPermissions(permissions) ==
  LET hits == {i \in 1..Len(PERM_TEMPLATES) : TemplateMatches(permissions, PERM_TEMPLATES[i].perms)}
  IN IF hits = {} THEN "Custom"
     ELSE PERM_TEMPLATES[CHOOSE i \in hits : \A j \in hits : i <= j].name

\* GLOBAL_STANDARD_MEMBERS, the initial managedStandardMembers.
GLOBAL_STANDARD_MEMBERS ==
  << [member |-> "G_PAM_ADMINS", domain |-> "Vault", perms |-> TemplatePerms("FULL"), role |-> "Full"],
     [member |-> "G_PROVISIONING_AUTOMATION", domain |-> "Vault", perms |-> TemplatePerms("SM-PROV"), role |-> "SM-PROV"],
     [member |-> "G_APPLICATION_READERS", domain |-> "Vault", perms |-> TemplatePerms("SM-APP"), role |-> "SM-APP"],
     [member |-> "G_SAFE_HOLDERS_GLOBAL", domain |-> "Vault", perms |-> TemplatePerms("SM-HOLDER"), role |-> "SM-HOLDER"] >>

-----------------------------------------------------------------------------
(* The state of the App component.                                         *)

VARIABLES
  \* the build flag import.meta.env.VITE_DEBUG_MODE === 'true'
  DEBUG_MODE,
  \* session and navigation
  isLoggedIn, authToken, vaultUrl, activeTab,
  \* the login screen: its fields, its error line, the in-progress flag, the
  \* login request in flight, and the two localStorage items of the app
  username, password, authError, isAuthenticating, loginRequest,
  storedToken, storedUrl,
  \* the popup on screen, and the showNotification calls of the last turn
  \* that made any, in call order
  notification, shown,
  \* safe create form
  customSafeName, safeDescription, managingCPM, retentionMode, versionRetention,
  daysRetention,
  \* member create form
  targetSafe, memberName, memberDomain, memberPermissions,
  standardMembersSelection, standardMembersPermissions,
  \* account create form
  accObject, accAddress, accUsername, accPassword, accPlatformId, accSafeName,
  accAutoMgmt, accManualReason, accRemoteMachines,
  \* the nine staging queues
  stagedSafes, stagedMembers, stagedAccounts,
  stagedSafeRemovals, stagedMemberRemovals, stagedAccountRemovals,
  stagedSafeModifications, stagedMemberModifications, stagedAccountModifications,
  \* the remote state mirrors
  availableSafesForRemoval, availableSafesForModification,
  availableMembersForRemoval, availableMembersForModification,
  availableAccountsForRemoval, availableAccountsForModification,
  \* the mirror fetches in flight, in the order the effects started them,
  \* each with the tab whose render started it
  fetches,
  \* the edit sessions of the modify sections
  editingSafeId, editedSafeData, editingMemberId, editedMemberData,
  editingAccountId, editedAccountData,
  \* the ticked checkboxes of the removal sections
  selectedSafesForRemoval, selectedMembersForRemoval, selectedAccountsForRemoval,
  \* the invocations of the Deploy handler, in the order they were started
  deployRuns

loginVars == <<username, password, authError, isAuthenticating, loginRequest>>

storageVars == <<storedToken, storedUrl>>

sessionVars == <<DEBUG_MODE, isLoggedIn, authToken, vaultUrl, loginVars, storageVars>>

safeFormVars ==
  <<customSafeName, safeDescription, managingCPM, retentionMode, versionRetention, daysRetention>>

memberFormVars ==
  <<targetSafe, memberName, memberDomain, memberPermissions,
    standardMembersSelection, standardMembersPermissions>>

accountFormVars ==
  <<accObject, accAddress, accUsername, accPassword, accPlatformId, accSafeName,
    accAutoMgmt, accManualReason, accRemoteMachines>>

formVars == <<safeFormVars, memberFormVars, accountFormVars>>

queueVars ==
  <<stagedSafes, stagedMembers, stagedAccounts,
    stagedSafeRemovals, stagedMemberRemovals, stagedAccountRemovals,
    stagedSafeModifications, stagedMemberModifications, stagedAccountModifications>>

mirrorVars ==
  <<availableSafesForRemoval, availableSafesForModification,
    availableMembersForRemoval, availableMembersForModification,
    availableAccountsForRemoval, availableAccountsForModification>>

editVars ==
  <<editingSafeId, editedSafeData, editingMemberId, editedMemberData,
    editingAccountId, editedAccountData>>

selectionVars ==
  <<selectedSafesForRemoval, selectedMembersForRemoval, selectedAccountsForRemoval>>

\* The state of the modify and remove sections besides the queues.
manageVars == <<mirrorVars, fetches, editVars, selectionVars>>

popupVars == <<notification, shown>>

vars == <<sessionVars, activeTab, popupVars, formVars, queueVars, manageVars, deployRuns>>

-----------------------------------------------------------------------------
(* Notifications: showNotification(message, type) replaces the one popup;  *)
(* its timer clears the popup.                                             *)

Notice(type, text, about) == [type |-> type, text |-> text, about |-> about]

\* useState(null), setNotification(null): no popup is shown.
NoNotification == Notice("none", "", "")

\* The showNotification calls of one turn, in call order: each replaces the
\* popup, so the last one stays on screen.
Show(notices) ==
  /\ shown' = notices
  /\ notification' = notices[Len(notices)]

\* setTimeout(() => setNotification(null), 4000)
NotificationTimeout ==
  /\ notification # NoNotification
  /\ notification' = NoNotification
  /\ UNCHANGED <<shown, sessionVars, activeTab, formVars, queueVars, manageVars, deployRuns>>

-----------------------------------------------------------------------------
(* The values an operator types, bounded to small sets.                    *)

SafeNameInputs == {"", " ", "Finance-01", "Ops-02"}
DescriptionInputs == {"", "quarterly books"}
CPMInputs == {"", "PasswordManager"}
RetentionModes == {"versions", "days"}
RetentionInputs == {"", "10"}
TargetSafeInputs == {"", "Finance-01"}
MemberNameInputs == {"", "alice"}
MemberDomains == {"Vault", "Domain.example"}
AccountTextInputs == {"", "x"}

\* The initial mirrors: the sample records of the useState initialisers.
InitialSafeMirror ==
  << [id |-> "SAFE-001", name |-> "Legacy-Database", managingCPM |-> "CyberArk",
      numberOfVersionsRetention |-> "10", numberOfDaysRetention |-> Null],
     [id |-> "SAFE-002", name |-> "Test-Environment", managingCPM |-> "VaultManager",
      numberOfVersionsRetention |-> Null, numberOfDaysRetention |-> "30"],
     [id |-> "SAFE-003", name |-> "Archive-2022", managingCPM |-> "CyberArk",
      numberOfVersionsRetention |-> "5", numberOfDaysRetention |-> Null] >>

InitialMemberMirror ==
  << [id |-> "MEM-001", member |-> "user.departed", domain |-> "DOMAIN", safe |-> "SAFE-001", role |-> "Contributor"],
     [id |-> "MEM-002", member |-> "temp.contractor", domain |-> "DOMAIN", safe |-> "SAFE-002", role |-> "Auditor"],
     [id |-> "MEM-003", member |-> "old.admin", domain |-> "Vault", safe |-> "SAFE-001", role |-> "Manager"] >>

InitialAccountMirror ==
  << [id |-> "ACC-001", object |-> "root", username |-> "admin_user", address |-> "192.168.1.10",
      platform |-> "Linux", safeName |-> "SAFE-001"],
     [id |-> "ACC-002", object |-> "sa", username |-> "db_admin", address |-> "db-server.local",
      platform |-> "SQLServer", safeName |-> "SAFE-002"],
     [id |-> "ACC-003", object |-> "admin", username |-> "system_admin", address |-> "10.0.0.5",
      platform |-> "Windows", safeName |-> "SAFE-003"] >>

-----------------------------------------------------------------------------
(* Initial state: the useState initialisers of App.                        *)

SafeFormDefault ==
  /\ customSafeName = ""
  /\ safeDescription = ""
  /\ managingCPM = ""
  /\ retentionMode = "versions"
  /\ versionRetention = ""
  /\ daysRetention = ""

MemberFormDefault ==
  /\ targetSafe = ""
  /\ memberName = ""
  /\ memberDomain = "Vault"
  /\ memberPermissions = EmptyObject
  /\ standardMembersSelection = EmptyObject
  /\ standardMembersPermissions = EmptyObject

AccountFormDefault ==
  /\ accObject = ""
  /\ accAddress = ""
  /\ accUsername = ""
  /\ accPassword = ""
  /\ accPlatformId = ""
  /\ accSafeName = ""
  /\ accAutoMgmt = TRUE
  /\ accManualReason = ""
  /\ accRemoteMachines = ""

QueuesEmpty ==
  /\ stagedSafes = <<>>
  /\ stagedMembers = <<>>
  /\ stagedAccounts = <<>>
  /\ stagedSafeRemovals = <<>>
  /\ stagedMemberRemovals = <<>>
  /\ stagedAccountRemovals = <<>>
  /\ stagedSafeModifications = <<>>
  /\ stagedMemberModifications = <<>>
  /\ stagedAccountModifications = <<>>

MirrorsInitial ==
  /\ availableSafesForRemoval = InitialSafeMirror
  /\ availableSafesForModification = InitialSafeMirror
  /\ availableMembersForRemoval = InitialMemberMirror
  /\ availableMembersForModification = InitialMemberMirror
  /\ availableAccountsForRemoval = InitialAccountMirror
  /\ availableAccountsForModification = InitialAccountMirror

\* No edit session is open and no checkbox is ticked: the useState
\* initialisers of the modify and remove sections.
SectionsIdle ==
  /\ editingSafeId = Null
  /\ editedSafeData = EmptyObject
  /\ editingMemberId = Null
  /\ editedMemberData = EmptyObject
  /\ editingAccountId = Null
  /\ editedAccountData = EmptyObject
  /\ selectedSafesForRemoval = {}
  /\ selectedMembersForRemoval = {}
  /\ selectedAccountsForRemoval = {}

\* Besides, no mirror fetch is in flight.
ManageIdle == fetches = <<>> /\ SectionsIdle

\* No login request is in flight.
NoLoginRequest == [pending |-> FALSE, vaultUrl |-> "", username |-> ""]

\* The token localStorage may hold from an earlier visit.
StoredTokens == {"", "token-0"}

Init ==
  /\ DEBUG_MODE \in BOOLEAN
  /\ isLoggedIn = FALSE
  /\ authToken \in StoredTokens
  /\ storedToken = (IF authToken = "" THEN Null ELSE authToken)
  /\ storedUrl = (IF authToken = "" THEN Null ELSE "https://vault.example")
  /\ vaultUrl = ""
  /\ username = ""
  /\ password = ""
  /\ authError = ""
  /\ isAuthenticating = FALSE
  /\ loginRequest = NoLoginRequest
  /\ ManageIdle
  /\ activeTab = "dashboard"
  /\ notification = NoNotification
  /\ shown = <<>>
  /\ SafeFormDefault
  /\ MemberFormDefault
  /\ AccountFormDefault
  /\ QueuesEmpty
  /\ MirrorsInitial
  /\ deployRuns = <<>>

\* The state after a successful login: the main application is rendered.
SessionOpen ==
  /\ DEBUG_MODE = FALSE
  /\ isLoggedIn = TRUE
  /\ authToken = "token-1"
  /\ vaultUrl = "https://vault.example"
  /\ username = "admin"
  /\ password = ""
  /\ authError = ""
  /\ isAuthenticating = FALSE
  /\ loginRequest = NoLoginRequest
  /\ storedToken = "token-1"
  /\ storedUrl = "https://vault.example"

-----------------------------------------------------------------------------
(* Bounds of the model.                                                    *)

\* The longest a staging queue grows by staging, and the most items the
\* queues of a deployment scenario hold in its first state.
MaxStaged == 2

\* The most invocations of the Deploy handler in one behaviour.
MaxRuns == 2

removalQueueVars == <<stagedSafeRemovals, stagedMemberRemovals, stagedAccountRemovals>>

modifyQueueVars ==
  <<stagedSafeModifications, stagedMemberModifications, stagedAccountModifications>>

\* A section of the main application is rendered, so its handlers can run.
OnTab(tab) == isLoggedIn /\ activeTab = tab

-----------------------------------------------------------------------------
(* Safe create form (SafeManagementSection) and handleAddSafeToStage.      *)

SetCustomSafeName(v) ==
  /\ OnTab("safe")
  /\ customSafeName' = v
  /\ UNCHANGED <<sessionVars, activeTab, popupVars, safeDescription, managingCPM,
                 retentionMode, versionRetention, daysRetention, memberFormVars,
                 accountFormVars, queueVars, manageVars, deployRuns>>

SetSafeDescription(v) ==
  /\ OnTab("safe")
  /\ safeDescription' = v
  /\ UNCHANGED <<sessionVars, activeTab, popupVars, customSafeName, managingCPM,
                 retentionMode, versionRetention, daysRetention, memberFormVars,
                 accountFormVars, queueVars, manageVars, deployRuns>>

SetManagingCPM(v) ==
  /\ OnTab("safe")
  /\ managingCPM' = v
  /\ UNCHANGED <<sessionVars, activeTab, popupVars, customSafeName, safeDescription,
                 retentionMode, versionRetention, daysRetention, memberFormVars,
                 accountFormVars, queueVars, manageVars, deployRuns>>

SetRetentionMode(m) ==
  /\ OnTab("safe")
  /\ retentionMode' = m
  /\ UNCHANGED <<sessionVars, activeTab, popupVars, customSafeName, safeDescription,
                 managingCPM, versionRetention, daysRetention, memberFormVars,
                 accountFormVars, queueVars, manageVars, deployRuns>>

\* The one retention input writes the field of the selected mode.
SetRetentionValue(v) ==
  /\ OnTab("safe")
  /\ IF retentionMode = "versions"
     THEN versionRetention' = v /\ UNCHANGED daysRetention
     ELSE daysRetention' = v /\ UNCHANGED versionRetention
  /\ UNCHANGED <<sessionVars, activeTab, popupVars, customSafeName, safeDescription,
                 managingCPM, retentionMode, memberFormVars,
                 accountFormVars, queueVars, manageVars, deployRuns>>

\* const retentionValue = retentionMode === 'versions' ? versionRetention : daysRetention
SelectedRetentionValue == IF retentionMode = "versions" THEN versionRetention ELSE daysRetention

\* The shape of an entry of stagedSafes.
SafeEntry(name, description, cpm, mode, value) ==
  [name |-> name, description |-> description, CPMManaging |-> cpm,
   retentionMode |-> mode, retentionValue |-> value]

\* The record handleAddSafeToStage stages.
NewSafe ==
  SafeEntry(customSafeName, safeDescription, managingCPM, retentionMode, SelectedRetentionValue)

\* !customSafeName.trim()
SafeNameMissing == ~Truthy(Trim(customSafeName))

\* !retentionValue
SafeRetentionMissing == ~Truthy(SelectedRetentionValue)

\* The six setters that reset the safe form after staging.
SafeFormReset ==
  /\ customSafeName' = ""
  /\ safeDescription' = ""
  /\ managingCPM' = ""
  /\ retentionMode' = "versions"
  /\ versionRetention' = ""
  /\ daysRetention' = ""

handleAddSafeToStage ==
  /\ OnTab("safe")
  /\ \/ /\ SafeNameMissing
        /\ Show(<<Notice("error", "Please enter a Safe name!", "")>>)
        /\ UNCHANGED <<safeFormVars, stagedSafes>>
     \/ /\ ~SafeNameMissing
        /\ SafeRetentionMissing
        /\ Show(<<Notice("error", "Please enter retention!", retentionMode)>>)
        /\ UNCHANGED <<safeFormVars, stagedSafes>>
     \/ /\ ~SafeNameMissing
        /\ ~SafeRetentionMissing
        /\ stagedSafes' = Append(stagedSafes, NewSafe)
        /\ SafeFormReset
        /\ UNCHANGED popupVars
  /\ UNCHANGED <<sessionVars, activeTab, memberFormVars, accountFormVars,
                 stagedMembers, stagedAccounts, removalQueueVars, modifyQueueVars,
                 manageVars, deployRuns>>

-----------------------------------------------------------------------------
(* Member create form (MemberManagementSection), handleAddStandardMembers  *)
(* and handleAddCustomMember.                                              *)

\* The checkboxes and standard members an operator of the model touches.
PermissionInputs ==
  {"UseAccounts", "ManageSafe", "RequestsAuthorizationLevel1", "RequestsAuthorizationLevel2"}
TemplateInputs == TemplateNames
StandardMemberInputs == {"G_PAM_ADMINS", "G_PROVISIONING_AUTOMATION"}

\* obj[k] of an object held as its entries; Undefined when k is no key.
Lookup(obj, k) ==
  IF HasKey(obj, k) THEN obj[CHOOSE i \in 1..Len(obj) : obj[i].key = k].value ELSE Undefined

\* Object.keys(obj).filter(key => obj[key]) of a mapping to booleans.
RECURSIVE TrueKeys(_)
TrueKeys(obj) ==
  IF obj = <<>> THEN <<>>
  ELSE (IF Head(obj).value THEN <<Head(obj).key>> ELSE <<>>) \o TrueKeys(Tail(obj))

SetTargetSafe(v) ==
  /\ OnTab("member")
  /\ targetSafe' = v
  /\ UNCHANGED <<sessionVars, activeTab, popupVars, safeFormVars, memberName, memberDomain,
                 memberPermissions, standardMembersSelection, standardMembersPermissions,
                 accountFormVars, queueVars, manageVars, deployRuns>>

SetMemberName(v) ==
  /\ OnTab("member")
  /\ memberName' = v
  /\ UNCHANGED <<sessionVars, activeTab, popupVars, safeFormVars, targetSafe, memberDomain,
                 memberPermissions, standardMembersSelection, standardMembersPermissions,
                 accountFormVars, queueVars, manageVars, deployRuns>>

SetMemberDomain(v) ==
  /\ OnTab("member")
  /\ memberDomain' = v
  /\ UNCHANGED <<sessionVars, activeTab, popupVars, safeFormVars, targetSafe, memberName,
                 memberPermissions, standardMembersSelection, standardMembersPermissions,
                 accountFormVars, queueVars, manageVars, deployRuns>>

\* A permission template button: setMemberPermissions(PERM_TEMPLATES[t]).
ApplyMemberTemplate(t) ==
  /\ OnTab("member")
  /\ memberPermissions' = TemplatePerms(t)
  /\ UNCHANGED <<sessionVars, activeTab, popupVars, safeFormVars, targetSafe, memberName,
                 memberDomain, standardMembersSelection, standardMembersPermissions,
                 accountFormVars, queueVars, manageVars, deployRuns>>

\* A permission checkbox: setMemberPermissions({...memberPermissions, [perm]: checked}),
\* checked being the opposite of the box as rendered (memberPermissions[perm] || false).
ToggleMemberPermission(perm) ==
  /\ OnTab("member")
  /\ memberPermissions' = SpreadSet(memberPermissions, perm, ~PermChecked(memberPermissions, perm))
  /\ UNCHANGED <<sessionVars, activeTab, popupVars, safeFormVars, targetSafe, memberName,
                 memberDomain, standardMembersSelection, standardMembersPermissions,
                 accountFormVars, queueVars, manageVars, deployRuns>>

\* managedStandardMembers.find(m => m.member === memberKey)
StandardMember(memberKey) ==
  GLOBAL_STANDARD_MEMBERS[CHOOSE i \in 1..Len(GLOBAL_STANDARD_MEMBERS) :
                            GLOBAL_STANDARD_MEMBERS[i].member = memberKey]

\* { ...standardMembersSelection, [memberName]: !standardMembersSelection[memberName] }
ToggledSelection(selection, m) == SpreadSet(selection, m, ~PermChecked(selection, m))

\* The member's permissions are copied in the first time it is toggled.
ToggledPermissions(permissions, m) ==
  IF HasKey(permissions, m) THEN permissions
  ELSE SpreadSet(permissions, m, StandardMember(m).perms)

toggleStandardMember(m) ==
  /\ OnTab("member")
  /\ standardMembersSelection' = ToggledSelection(standardMembersSelection, m)
  /\ standardMembersPermissions' = ToggledPermissions(standardMembersPermissions, m)
  /\ UNCHANGED <<sessionVars, activeTab, popupVars, safeFormVars, targetSafe, memberName,
                 memberDomain, memberPermissions, accountFormVars, queueVars, manageVars,
                 deployRuns>>

\* One entry of newEntries in handleAddStandardMembers.
StandardMemberEntry(memberKey) ==
  LET member == StandardMember(memberKey)
      perms == IF HasKey(standardMembersPermissions, memberKey)
               THEN Lookup(standardMembersPermissions, memberKey)
               ELSE member.perms
  IN [safe |-> targetSafe, member |-> member.member, domain |-> member.domain,
      perms |-> perms, roleLabel |-> detectRoleFromPermissions(perms)]

\* selectedMembers.map(...)
StandardMemberEntries ==
  LET selectedMembers == TrueKeys(standardMembersSelection)
  IN [i \in 1..Len(selectedMembers) |-> StandardMemberEntry(selectedMembers[i])]

handleAddStandardMembers ==
  /\ OnTab("member")
  /\ \/ /\ ~Truthy(targetSafe)
        /\ Show(<<Notice("error", "Please specify a target Safe!", "")>>)
        /\ UNCHANGED <<stagedMembers, standardMembersSelection, standardMembersPermissions>>
     \/ /\ Truthy(targetSafe)
        /\ TrueKeys(standardMembersSelection) = <<>>
        /\ Show(<<Notice("error", "Please select at least one standard member!", "")>>)
        /\ UNCHANGED <<stagedMembers, standardMembersSelection, standardMembersPermissions>>
     \/ /\ Truthy(targetSafe)
        /\ TrueKeys(standardMembersSelection) # <<>>
        /\ stagedMembers' = stagedMembers \o StandardMemberEntries
        /\ standardMembersSelection' = EmptyObject
        /\ standardMembersPermissions' = EmptyObject
        /\ UNCHANGED popupVars
  /\ UNCHANGED <<sessionVars, activeTab, safeFormVars, targetSafe, memberName, memberDomain,
                 memberPermissions, accountFormVars, stagedSafes, stagedAccounts,
                 removalQueueVars, modifyQueueVars, manageVars, deployRuns>>

\* The shape of an entry of stagedMembers; the role label is detected from
\* the permissions staged.
MemberEntry(safe, member, domain, perms) ==
  [safe |-> safe, member |-> member, domain |-> domain,
   perms |-> perms, roleLabel |-> detectRoleFromPermissions(perms)]

\* The record handleAddCustomMember stages.
NewCustomMember == MemberEntry(targetSafe, memberName, memberDomain, memberPermissions)

\* !targetSafe || !memberName
CustomMemberMissing == ~Truthy(targetSafe) \/ ~Truthy(memberName)

handleAddCustomMember ==
  /\ OnTab("member")
  /\ \/ /\ CustomMemberMissing
        /\ Show(<<Notice("error", "Please specify a target Safe and member name!", "")>>)
        /\ UNCHANGED <<stagedMembers, memberName>>
     \/ /\ ~CustomMemberMissing
        /\ stagedMembers' = Append(stagedMembers, NewCustomMember)
        /\ memberName' = ""
        /\ UNCHANGED popupVars
  /\ UNCHANGED <<sessionVars, activeTab, safeFormVars, targetSafe, memberDomain,
                 memberPermissions, standardMembersSelection, standardMembersPermissions,
                 accountFormVars, stagedSafes, stagedAccounts,
                 removalQueueVars, modifyQueueVars, manageVars, deployRuns>>

-----------------------------------------------------------------------------
(* Account create form (AccountManagementSection), handleAddAccountToQueue. *)

SetAccObject(v) ==
  /\ OnTab("account")
  /\ accObject' = v
  /\ UNCHANGED <<sessionVars, activeTab, popupVars, safeFormVars, memberFormVars,
                 accAddress, accUsername, accPassword, accPlatformId, accSafeName,
                 accAutoMgmt, accManualReason, accRemoteMachines,
                 queueVars, manageVars, deployRuns>>

SetAccAddress(v) ==
  /\ OnTab("account")
  /\ accAddress' = v
  /\ UNCHANGED <<sessionVars, activeTab, popupVars, safeFormVars, memberFormVars,
                 accObject, accUsername, accPassword, accPlatformId, accSafeName,
                 accAutoMgmt, accManualReason, accRemoteMachines,
                 queueVars, manageVars, deployRuns>>

SetAccUsername(v) ==
  /\ OnTab("account")
  /\ accUsername' = v
  /\ UNCHANGED <<sessionVars, activeTab, popupVars, safeFormVars, memberFormVars,
                 accObject, accAddress, accPassword, accPlatformId, accSafeName,
                 accAutoMgmt, accManualReason, accRemoteMachines,
                 queueVars, manageVars, deployRuns>>

SetAccPassword(v) ==
  /\ OnTab("account")
  /\ accPassword' = v
  /\ UNCHANGED <<sessionVars, activeTab, popupVars, safeFormVars, memberFormVars,
                 accObject, accAddress, accUsername, accPlatformId, accSafeName,
                 accAutoMgmt, accManualReason, accRemoteMachines,
                 queueVars, manageVars, deployRuns>>

SetAccPlatformId(v) ==
  /\ OnTab("account")
  /\ accPlatformId' = v
  /\ UNCHANGED <<sessionVars, activeTab, popupVars, safeFormVars, memberFormVars,
                 accObject, accAddress, accUsername, accPassword, accSafeName,
                 accAutoMgmt, accManualReason, accRemoteMachines,
                 queueVars, manageVars, deployRuns>>

SetAccSafeName(v) ==
  /\ OnTab("account")
  /\ accSafeName' = v
  /\ UNCHANGED <<sessionVars, activeTab, popupVars, safeFormVars, memberFormVars,
                 accObject, accAddress, accUsername, accPassword, accPlatformId,
                 accAutoMgmt, accManualReason, accRemoteMachines,
                 queueVars, manageVars, deployRuns>>

\* The CPM Management checkbox: setAccAutoMgmt(e.target.checked).
ToggleAccAutoMgmt ==
  /\ OnTab("account")
  /\ accAutoMgmt' = ~accAutoMgmt
  /\ UNCHANGED <<sessionVars, activeTab, popupVars, safeFormVars, memberFormVars,
                 accObject, accAddress, accUsername, accPassword, accPlatformId, accSafeName,
                 accManualReason, accRemoteMachines,
                 queueVars, manageVars, deployRuns>>

\* The Manual Reason textarea is rendered only while CPM management is off.
SetAccManualReason(v) ==
  /\ OnTab("account")
  /\ ~accAutoMgmt
  /\ accManualReason' = v
  /\ UNCHANGED <<sessionVars, activeTab, popupVars, safeFormVars, memberFormVars,
                 accObject, accAddress, accUsername, accPassword, accPlatformId, accSafeName,
                 accAutoMgmt, accRemoteMachines,
                 queueVars, manageVars, deployRuns>>

SetAccRemoteMachines(v) ==
  /\ OnTab("account")
  /\ accRemoteMachines' = v
  /\ UNCHANGED <<sessionVars, activeTab, popupVars, safeFormVars, memberFormVars,
                 accObject, accAddress, accUsername, accPassword, accPlatformId, accSafeName,
                 accAutoMgmt, accManualReason,
                 queueVars, manageVars, deployRuns>>

\* The shape of an entry of stagedAccounts.
AccountEntry(object, address, userName, secret, platformId, safeName, autoMgmt, reason, machines) ==
  [object |-> object, address |-> address, userName |-> userName,
   secret |-> secret, platformId |-> platformId, safeName |-> safeName,
   automaticManagement |-> autoMgmt,
   manualManagementReason |-> IF autoMgmt THEN "" ELSE reason,
   remoteMachines |-> machines]

\* The record handleAddAccountToQueue stages.
NewAccount ==
  AccountEntry(accObject, accAddress, accUsername, accPassword, accPlatformId, accSafeName,
               accAutoMgmt, accManualReason, accRemoteMachines)

\* A check that does not require the platform id.
AccountFieldsMissingButPlatform ==
  ~Truthy(accObject) \/ ~Truthy(accAddress) \/ ~Truthy(accUsername) \/ ~Truthy(accSafeName)

\* !accObject || !accAddress || !accUsername || !accPlatformId || !accSafeName
AccountFieldsMissing ==
  \/ ~Truthy(accObject)
  \/ ~Truthy(accAddress)
  \/ ~Truthy(accUsername)
  \/ ~Truthy(accPlatformId)
  \/ ~Truthy(accSafeName)

\* A reset that leaves the secret in the form.
AccountFormResetKeepsSecret ==
  /\ accAddress' = ""
  /\ accUsername' = ""
  /\ accManualReason' = ""
  /\ accObject' = ""
  /\ accRemoteMachines' = ""
  /\ UNCHANGED <<accPassword, accPlatformId, accSafeName, accAutoMgmt>>

\* The setters under "Reset form": platform id, safe name and the CPM
\* management checkbox are not among them.
AccountFormReset ==
  /\ accAddress' = ""
  /\ accUsername' = ""
  /\ accManualReason' = ""
  /\ accObject' = ""
  /\ accPassword' = ""
  /\ accRemoteMachines' = ""
  /\ UNCHANGED <<accPlatformId, accSafeName, accAutoMgmt>>

handleAddAccountToQueue ==
  /\ OnTab("account")
  /\ \/ /\ AccountFieldsMissing
        /\ Show(<<Notice("error", "Please fill required fields!", "")>>)
        /\ UNCHANGED <<accountFormVars, stagedAccounts>>
     \/ /\ ~AccountFieldsMissing
        /\ stagedAccounts' = Append(stagedAccounts, NewAccount)
        /\ AccountFormReset
        /\ UNCHANGED popupVars
  /\ UNCHANGED <<sessionVars, activeTab, safeFormVars, memberFormVars,
                 stagedSafes, stagedMembers, removalQueueVars, modifyQueueVars,
                 manageVars, deployRuns>>

\* QueueSection onRemove(idx) of the three create queues.
RemoveStagedSafe(idx) ==
  /\ OnTab("safe")
  /\ idx \in 1..Len(stagedSafes)
  /\ stagedSafes' = RemoveAt(stagedSafes, idx)
  /\ UNCHANGED <<sessionVars, activeTab, popupVars, formVars, stagedMembers, stagedAccounts,
                 removalQueueVars, modifyQueueVars, manageVars, deployRuns>>

RemoveStagedMember(idx) ==
  /\ OnTab("member")
  /\ idx \in 1..Len(stagedMembers)
  /\ stagedMembers' = RemoveAt(stagedMembers, idx)
  /\ UNCHANGED <<sessionVars, activeTab, popupVars, formVars, stagedSafes, stagedAccounts,
                 removalQueueVars, modifyQueueVars, manageVars, deployRuns>>

RemoveStagedAccount(idx) ==
  /\ OnTab("account")
  /\ idx \in 1..Len(stagedAccounts)
  /\ stagedAccounts' = RemoveAt(stagedAccounts, idx)
  /\ UNCHANGED <<sessionVars, activeTab, popupVars, formVars, stagedSafes, stagedMembers,
                 removalQueueVars, modifyQueueVars, manageVars, deployRuns>>

-----------------------------------------------------------------------------
(* The fetch effects of the modify and remove tabs start on a render in    *)
(* which activeTab or authToken changed.                                   *)

\* The resource kind whose fetch effect a tab satisfies; "none" for the rest.
KindOf(tab) ==
  IF tab \in {"safe-modify", "safe-remove"} THEN "safe"
  ELSE IF tab \in {"member-modify", "member-remove"} THEN "member"
  ELSE IF tab \in {"account-modify", "account-remove"} THEN "account"
  ELSE "none"

ManageTabs ==
  {"safe-modify", "safe-remove", "member-modify", "member-remove",
   "account-modify", "account-remove"}

\* The effects after a render in which activeTab or authToken changed: the
\* fetch of the kind of the tab starts when the token is truthy.
EffectFetches(tab, token) ==
  IF KindOf(tab) # "none" /\ Truthy(token)
  THEN Append(fetches, [kind |-> KindOf(tab), token |-> token, tab |-> tab])
  ELSE fetches

-----------------------------------------------------------------------------
(* The API layer: makeAPIRequest over the outcomes of fetch().             *)

\* A parsed JSON body: an array of items, an object that may carry error and
\* message, or null.
ArrayBody(items) == [kind |-> "array", items |-> items, error |-> Undefined, message |-> Undefined]
ObjectBody(items, error, message) ==
  [kind |-> "object", items |-> items, error |-> error, message |-> message]
NullBody == [kind |-> "null", items |-> <<>>, error |-> Undefined, message |-> Undefined]

\* {}: what .catch(() => ({})) puts in place of a body that does not parse.
EmptyBody == ObjectBody(<<>>, Undefined, Undefined)

\* fetch() rejected: no response at all.
NetworkFailure ==
  [rejected |-> TRUE, ok |-> FALSE, status |-> "", statusText |-> "Failed to fetch",
   parses |-> FALSE, body |-> EmptyBody]

\* fetch() resolved with a response; parses tells whether response.json()
\* resolves.
HttpResponse(ok, status, statusText, parses, body) ==
  [rejected |-> FALSE, ok |-> ok, status |-> status, statusText |-> statusText,
   parses |-> parses, body |-> body]

Returned(value) == [threw |-> FALSE, message |-> "", value |-> value]
Threw(message) == [threw |-> TRUE, message |-> message, value |-> EmptyBody]

\* The outcome of the try block of makeAPIRequest: the parsed body, or the
\* error thrown inside it.
RequestAttempt(response) ==
  IF response.rejected THEN Threw(response.statusText)
  ELSE IF ~response.ok
  THEN LET errorData == IF response.parses THEN response.body ELSE EmptyBody
       IN IF errorData.kind = "null"
          THEN Threw("Cannot read properties of null (reading 'error')")
          ELSE IF Truthy(errorData.error) THEN Threw(errorData.error)
          ELSE IF Truthy(errorData.message) THEN Threw(errorData.message)
          ELSE Threw("API Error " \o response.status \o ": " \o response.statusText)
  ELSE Returned(IF response.parses THEN response.body ELSE EmptyBody)

\* A wrapper whose catch rethrows the error as it caught it.
makeAPIRequestRethrowsAsIs(response) == RequestAttempt(response)

\* makeAPIRequest: every error of the attempt is rethrown as
\* new Error(`CyberArk API Request Failed: ${error.message}`).
makeAPIRequest(response) ==
  LET attempt == RequestAttempt(response)
  IN IF attempt.threw THEN Threw("CyberArk API Request Failed: " \o attempt.message)
     ELSE attempt

-----------------------------------------------------------------------------
(* The login screen: its three inputs and authenticate.                    *)

VaultUrlInputs == {"", "https://vault.example"}
UsernameInputs == {"", "admin"}
PasswordInputs == {"", "secret"}

\* onChange of the PVWA URL, Username and Password inputs: the field is set
\* and a shown error is cleared.
SetVaultUrl(v) ==
  /\ ~isLoggedIn
  /\ vaultUrl' = v
  /\ authError' = ""
  /\ UNCHANGED <<DEBUG_MODE, isLoggedIn, authToken, username, password, isAuthenticating,
                 loginRequest, storageVars, activeTab, popupVars, formVars, queueVars,
                 manageVars, deployRuns>>

SetUsername(v) ==
  /\ ~isLoggedIn
  /\ username' = v
  /\ authError' = ""
  /\ UNCHANGED <<DEBUG_MODE, isLoggedIn, authToken, vaultUrl, password, isAuthenticating,
                 loginRequest, storageVars, activeTab, popupVars, formVars, queueVars,
                 manageVars, deployRuns>>

SetPassword(v) ==
  /\ ~isLoggedIn
  /\ password' = v
  /\ authError' = ""
  /\ UNCHANGED <<DEBUG_MODE, isLoggedIn, authToken, vaultUrl, username, isAuthenticating,
                 loginRequest, storageVars, activeTab, popupVars, formVars, queueVars,
                 manageVars, deployRuns>>

\* A check that does not ask for the password.
LoginFieldsMissingButPassword == ~Truthy(vaultUrl) \/ ~Truthy(username)

\* !vaultUrl || !username || !password
LoginFieldsMissing == ~Truthy(vaultUrl) \/ ~Truthy(username) \/ ~Truthy(password)

MissingFieldsMessage == "Please enter PVWA URL, username, and password."

\* The Authenticate button, disabled while isAuthenticating: authenticate up
\* to its await of fetch(loginUrl).
authenticate ==
  /\ ~isLoggedIn
  /\ ~isAuthenticating
  /\ IF LoginFieldsMissing
     THEN /\ authError' = MissingFieldsMessage
          /\ Show(<<Notice("error", MissingFieldsMessage, "")>>)
          /\ UNCHANGED <<isAuthenticating, loginRequest>>
     ELSE /\ authError' = ""
          /\ isAuthenticating' = TRUE
          /\ Show(<<Notice("info", "Authenticating with CyberArk...", "")>>)
          /\ loginRequest' = [pending |-> TRUE, vaultUrl |-> vaultUrl, username |-> username]
  /\ UNCHANGED <<DEBUG_MODE, isLoggedIn, authToken, vaultUrl, username, password, storageVars,
                 activeTab, formVars, queueVars, manageVars, deployRuns>>

\* The JSON bodies of the login endpoint: an object that may carry token,
\* error and message, a bare string, or null.
LoginObject(token, error, message) ==
  [kind |-> "object", token |-> token, text |-> "", error |-> error, message |-> message]
LoginString(text) ==
  [kind |-> "string", token |-> Undefined, text |-> text, error |-> Undefined,
   message |-> Undefined]
LoginNull ==
  [kind |-> "null", token |-> Undefined, text |-> "", error |-> Undefined,
   message |-> Undefined]

\* An object used where a string is expected: String({}).
ObjectAsString == "[object Object]"

\* const token = loginData.token || loginData, as the string it is stored and
\* sent as.
TokenOf(loginData) ==
  IF Truthy(loginData.token) THEN loginData.token
  ELSE IF loginData.kind = "string" THEN loginData.text
  ELSE ObjectAsString

\* The try block of authenticate after its await: the token, or the error
\* thrown.
LoginAttempt(response) ==
  IF response.rejected THEN Threw(response.statusText)
  ELSE IF ~response.ok
  THEN LET errorData == IF response.parses THEN response.body
                        ELSE LoginObject(Undefined, Undefined, Undefined)
       IN IF errorData.kind = "null"
          THEN Threw("Cannot read properties of null (reading 'error')")
          ELSE IF Truthy(errorData.error) THEN Threw(errorData.error)
          ELSE IF Truthy(errorData.message) THEN Threw(errorData.message)
          ELSE Threw("Authentication failed: " \o response.statusText)
  ELSE IF ~response.parses THEN Threw("Unexpected end of JSON input")
  ELSE IF response.body.kind = "null"
  THEN Threw("Cannot read properties of null (reading 'token')")
  ELSE IF ~Truthy(TokenOf(response.body))
  THEN Threw("No authentication token received from CyberArk")
  ELSE Returned(TokenOf(response.body))

\* What the login endpoint of the scenarios answers.
LoginResponses ==
  { NetworkFailure,
    HttpResponse(FALSE, "401", "Unauthorized", TRUE,
                 LoginObject(Undefined, "Invalid credentials", Undefined)),
    HttpResponse(FALSE, "500", "Internal Server Error", FALSE, LoginNull),
    HttpResponse(TRUE, "200", "OK", TRUE, LoginObject("token-1", Undefined, Undefined)),
    HttpResponse(TRUE, "200", "OK", TRUE, LoginString("token-2")),
    HttpResponse(TRUE, "200", "OK", TRUE, LoginObject(Undefined, Undefined, Undefined)),
    HttpResponse(TRUE, "200", "OK", TRUE, LoginString("")),
    HttpResponse(TRUE, "200", "OK", FALSE, LoginNull) }

\* authenticate from the answer of fetch(loginUrl) to its end; vaultUrl is the
\* one of the render the button was clicked in.
LoginResponse(response) ==
  /\ loginRequest.pending
  /\ response \in LoginResponses
  /\ LET attempt == LoginAttempt(response)
     IN IF attempt.threw
        THEN /\ authError' = attempt.message
             /\ Show(<<Notice("error", "Authentication failed", attempt.message)>>)
             /\ UNCHANGED <<isLoggedIn, authToken, password, storageVars, fetches>>
        ELSE /\ authToken' = attempt.value
             /\ storedToken' = attempt.value
             /\ storedUrl' = loginRequest.vaultUrl
             /\ password' = ""
             /\ isLoggedIn' = TRUE
             /\ Show(<<Notice("success", "Successfully authenticated with CyberArk!", "")>>)
             /\ fetches' = IF attempt.value # authToken
                           THEN EffectFetches(activeTab, attempt.value) ELSE fetches
             /\ UNCHANGED authError
  /\ isAuthenticating' = FALSE
  /\ loginRequest' = NoLoginRequest
  /\ UNCHANGED <<DEBUG_MODE, vaultUrl, username, activeTab, formVars, queueVars, mirrorVars,
                 editVars, selectionVars, deployRuns>>

-----------------------------------------------------------------------------
(* Session: the debug login button of the login screen, and Logout.        *)

\* A login screen that shows the debug button in every build.
DebugButtonAlwaysRendered == TRUE

\* {DEBUG_MODE && (<button ...>)}
DebugButtonRendered == DEBUG_MODE

\* A logout that removes the token item only.
RemoveTokenItemOnly == storedToken' = Null /\ UNCHANGED storedUrl

\* localStorage.removeItem('cyberark_token'); localStorage.removeItem('cyberark_url')
RemoveStoredItems == storedToken' = Null /\ storedUrl' = Null

\* The "Debug Mode (Skip Login)" button of a build with DEBUG_MODE on.
DebugLogin ==
  /\ DebugButtonRendered
  /\ ~isLoggedIn
  /\ vaultUrl' = "https://cyberark-dev.local:8443"
  /\ authToken' = "debug_token"
  \* the stored token reads the clock a second time
  /\ storedToken' \in {"debug_token", "debug_token+"}
  /\ storedUrl' = "https://cyberark-dev.local:8443"
  /\ isLoggedIn' = TRUE
  /\ Show(<<Notice("success", "Debug mode enabled - bypassing authentication", "")>>)
  /\ fetches' = EffectFetches(activeTab, authToken')
  /\ UNCHANGED <<DEBUG_MODE, loginVars, activeTab, formVars, queueVars, mirrorVars, editVars,
                 selectionVars, deployRuns>>

\* A logout that also empties the three create queues.
LogoutClearsQueues ==
  /\ isLoggedIn
  /\ isLoggedIn' = FALSE
  /\ authToken' = ""
  /\ vaultUrl' = ""
  /\ username' = ""
  /\ storedToken' = Null /\ storedUrl' = Null
  /\ Show(<<Notice("success", "Logged out successfully", "")>>)
  /\ stagedSafes' = <<>> /\ stagedMembers' = <<>> /\ stagedAccounts' = <<>>
  /\ UNCHANGED <<DEBUG_MODE, password, authError, isAuthenticating, loginRequest,
                 activeTab, formVars, removalQueueVars, modifyQueueVars, manageVars,
                 deployRuns>>

\* The Logout button of the header.
Logout ==
  /\ isLoggedIn
  /\ isLoggedIn' = FALSE
  /\ authToken' = ""
  /\ vaultUrl' = ""
  /\ username' = ""
  /\ RemoveStoredItems
  /\ Show(<<Notice("success", "Logged out successfully", "")>>)
  /\ UNCHANGED <<DEBUG_MODE, password, authError, isAuthenticating, loginRequest,
                 activeTab, formVars, queueVars, manageVars, deployRuns>>

-----------------------------------------------------------------------------
(* Navigation.                                                             *)

\* The tabs whose rendering starts no mirror fetch.
PlainTabs == {"dashboard", "safe", "member", "account", "review-deploy"}

\* A sidebar button: setActiveTab(tab).
SetActiveTab(tab) ==
  /\ isLoggedIn
  /\ tab \in PlainTabs
  /\ activeTab # tab
  /\ activeTab' = tab
  /\ UNCHANGED <<sessionVars, popupVars, formVars, queueVars, manageVars, deployRuns>>

-----------------------------------------------------------------------------
(* The deployment engine: the onClick handler of the Deploy button.        *)

\* A handler whose removal loops come before its create loops.
DeployLoopsRemovalsFirst ==
  << [queue |-> "stagedSafeRemovals", api |-> "safeAPI.delete", label |-> "name"],
     [queue |-> "stagedMemberRemovals", api |-> "memberAPI.remove", label |-> "member"],
     [queue |-> "stagedAccountRemovals", api |-> "accountAPI.delete", label |-> "username"],
     [queue |-> "stagedSafes", api |-> "safeAPI.create", label |-> "name"],
     [queue |-> "stagedMembers", api |-> "memberAPI.add", label |-> "member"],
     [queue |-> "stagedAccounts", api |-> "accountAPI.create", label |-> "userName"],
     [queue |-> "stagedSafeModifications", api |-> "safeAPI.update", label |-> "name"],
     [queue |-> "stagedMemberModifications", api |-> "memberAPI.updatePermissions",
      label |-> "member"],
     [queue |-> "stagedAccountModifications", api |-> "accountAPI.update",
      label |-> "userName"] >>

\* The nine for...of loops of the handler in source order: the queue each
\* one iterates, the API operation it awaits per entry and the property of
\* the entry its notifications print.
DeployLoops ==
  << [queue |-> "stagedSafes", api |-> "safeAPI.create", label |-> "name"],
     [queue |-> "stagedMembers", api |-> "memberAPI.add", label |-> "member"],
     [queue |-> "stagedAccounts", api |-> "accountAPI.create", label |-> "userName"],
     [queue |-> "stagedSafeRemovals", api |-> "safeAPI.delete", label |-> "name"],
     [queue |-> "stagedMemberRemovals", api |-> "memberAPI.remove", label |-> "member"],
     [queue |-> "stagedAccountRemovals", api |-> "accountAPI.delete", label |-> "username"],
     [queue |-> "stagedSafeModifications", api |-> "safeAPI.update", label |-> "name"],
     [queue |-> "stagedMemberModifications", api |-> "memberAPI.updatePermissions",
      label |-> "member"],
     [queue |-> "stagedAccountModifications", api |-> "accountAPI.update",
      label |-> "userName"] >>

NumLoops == Len(DeployLoops)

QueueNames == {DeployLoops[l].queue : l \in 1..NumLoops}

\* The queues as the handler's closure captures them at the click.
Queues ==
  [q \in QueueNames |->
     CASE q = "stagedSafes" -> stagedSafes
       [] q = "stagedMembers" -> stagedMembers
       [] q = "stagedAccounts" -> stagedAccounts
       [] q = "stagedSafeRemovals" -> stagedSafeRemovals
       [] q = "stagedMemberRemovals" -> stagedMemberRemovals
       [] q = "stagedAccountRemovals" -> stagedAccountRemovals
       [] q = "stagedSafeModifications" -> stagedSafeModifications
       [] q = "stagedMemberModifications" -> stagedMemberModifications
       [] q = "stagedAccountModifications" -> stagedAccountModifications]

RECURSIVE SumLengths(_, _)
SumLengths(queues, l) ==
  IF l > NumLoops THEN 0 ELSE Len(queues[DeployLoops[l].queue]) + SumLengths(queues, l + 1)

\* const totalItems = stagedSafes.length + ... + stagedAccountModifications.length
TotalItems(queues) == SumLengths(queues, 1)

\* A handler that never takes the empty-queues return.
NeverNothingToDeploy == FALSE

\* if (totalItems === 0)
NothingToDeploy == TotalItems(Queues) = 0

\* The first loop from l on whose queue has an entry; NumLoops + 1 when the
\* remaining loops have nothing to iterate.
RECURSIVE FirstLoopFrom(_, _)
FirstLoopFrom(queues, l) ==
  IF l > NumLoops THEN NumLoops + 1
  ELSE IF queues[DeployLoops[l].queue] # <<>> THEN l
  ELSE FirstLoopFrom(queues, l + 1)

\* The iteration after entry idx of loop l: the next entry of the same
\* queue, else the first entry of the next loop that has one.
NextPosition(queues, l, idx) ==
  IF l >= 1 /\ l <= NumLoops /\ idx < Len(queues[DeployLoops[l].queue])
  THEN [loop |-> l, idx |-> idx + 1]
  ELSE [loop |-> FirstLoopFrom(queues, l + 1), idx |-> 1]

\* The request a loop awaits for one entry, sent with the token the
\* API functions of the click's render captured.
ApiCall(run, l, idx) ==
  [api |-> DeployLoops[l].api, item |-> run.snapshot[DeployLoops[l].queue][idx],
   token |-> run.token]

\* The run moves to position pos: it issues and awaits the call of the entry
\* there; when the loops are over it has nothing to await and is done.
Advance(run, pos) ==
  LET at == [run EXCEPT !.loop = pos.loop, !.idx = pos.idx]
  IN IF pos.loop <= NumLoops
     THEN [at EXCEPT !.pending = <<ApiCall(run, pos.loop, pos.idx)>>,
                     !.issued = Append(run.issued, ApiCall(run, pos.loop, pos.idx))]
     ELSE [at EXCEPT !.pending = <<>>, !.done = TRUE]

\* The state of an invocation at its click, before its first loop.
NewRun ==
  [snapshot |-> Queues, totalItems |-> TotalItems(Queues), token |-> authToken,
   loop |-> 0, idx |-> 0, pending |-> <<>>, issued |-> <<>>, done |-> FALSE]

\* obj[f] of a record; Undefined when the record has no such property.
Field(obj, f) == IF f \in DOMAIN obj THEN obj[f] ELSE Undefined

\* The "Creating Safe: ...", "Adding Member ..." popup shown before a call.
ProgressNotice(run) ==
  Notice("info", DeployLoops[run.loop].api,
         Field(run.snapshot[DeployLoops[run.loop].queue][run.idx], DeployLoops[run.loop].label))

\* `Deployment completed! ${totalItems} items processed.`
CompletionNotice(run) == Notice("success", "Deployment completed!", ToString(run.totalItems))

\* `Starting deployment of ${totalItems} items...`
StartNotice(run) == Notice("info", "Starting deployment", ToString(run.totalItems))

\* The awaited call of the run's entry returned (ok) or threw: the success
\* popup after the await, or the error popup of the entry's catch block.
OutcomeNotice(run, ok) ==
  Notice(IF ok THEN "success" ELSE "error", DeployLoops[run.loop].api,
         Field(run.snapshot[DeployLoops[run.loop].queue][run.idx], DeployLoops[run.loop].label))

\* A run whose first failure ends its loops.
PositionAfterAbortOnFailure(run, ok) ==
  IF ok THEN NextPosition(run.snapshot, run.loop, run.idx)
  ELSE [loop |-> NumLoops + 1, idx |-> 1]

\* Each entry has its own try/catch inside the loop body, so the loop goes
\* on to the next iteration after a success and after a failure alike.
PositionAfter(run, ok) == NextPosition(run.snapshot, run.loop, run.idx)

\* A completion that empties the three create queues only.
ClearCreateQueuesOnly ==
  /\ stagedSafes' = <<>>
  /\ stagedMembers' = <<>>
  /\ stagedAccounts' = <<>>
  /\ UNCHANGED <<removalQueueVars, modifyQueueVars>>

\* The nine setStagedX([]) calls after the completion popup.
ClearQueues ==
  /\ stagedSafes' = <<>>
  /\ stagedMembers' = <<>>
  /\ stagedAccounts' = <<>>
  /\ stagedSafeRemovals' = <<>>
  /\ stagedMemberRemovals' = <<>>
  /\ stagedAccountRemovals' = <<>>
  /\ stagedSafeModifications' = <<>>
  /\ stagedMemberModifications' = <<>>
  /\ stagedAccountModifications' = <<>>

\* How a turn of a run ends, having shown the notices so far: at an await
\* with the popup of the call awaited, at the end of the loops with the
\* completion popup and the queues emptied.
TurnEnds(run, notices) ==
  IF run.done
  THEN Show(Append(notices, CompletionNotice(run))) /\ ClearQueues
  ELSE Show(Append(notices, ProgressNotice(run))) /\ UNCHANGED queueVars

\* A click on "Deploy All Staged Changes", up to the first await.  The
\* button is rendered disabled while the nine queues are empty; the handler
\* keeps its own check of that case.
DeployClick ==
  /\ OnTab("review-deploy")
  /\ \/ /\ NothingToDeploy
        /\ Show(<<Notice("warning", "No staged items to deploy!", "")>>)
        /\ UNCHANGED <<queueVars, deployRuns>>
     \/ /\ ~NothingToDeploy
        /\ Len(deployRuns) < MaxRuns
        /\ LET run == Advance(NewRun, NextPosition(Queues, 0, 0))
           IN /\ deployRuns' = Append(deployRuns, run)
              /\ TurnEnds(run, <<StartNotice(run)>>)
  /\ UNCHANGED <<sessionVars, activeTab, formVars, manageVars>>

\* The call run r awaits returns (ok) or throws: the continuation of the
\* handler up to its next await or to its end.
DeployResponse(r, ok) ==
  /\ r \in 1..Len(deployRuns)
  /\ deployRuns[r].pending # <<>>
  /\ LET run == Advance(deployRuns[r], PositionAfter(deployRuns[r], ok))
     IN /\ deployRuns' = [deployRuns EXCEPT ![r] = run]
        /\ TurnEnds(run, <<OutcomeNotice(deployRuns[r], ok)>>)
  /\ UNCHANGED <<sessionVars, activeTab, formVars, manageVars>>

-----------------------------------------------------------------------------
(* The records the modify handlers stage (handleSaveModifiedSafe,          *)
(* handleSaveModifiedMember, handleSaveModifiedAccount).                   *)

\* The Edit button of a safe: the edit session starts with the retention the
\* mirror shows.
SafeEditStart(safe) ==
  [retentionType |-> IF Truthy(safe.numberOfVersionsRetention) THEN "versions" ELSE "days",
   retentionValue |-> IF Truthy(safe.numberOfVersionsRetention)
                      THEN safe.numberOfVersionsRetention
                      ELSE safe.numberOfDaysRetention]

\* The Edit button of a member: setEditedMemberData({ perms: member.perms || {} }).
MemberEditStart(member) ==
  [perms |-> IF "perms" \in DOMAIN member THEN member.perms ELSE EmptyObject]

\* const editedSafe = { ...baseSafe, managingCPM, numberOfVersionsRetention,
\* numberOfDaysRetention } of handleSaveModifiedSafe.
EditedSafe(baseSafe, edited) ==
  LET retentionType ==
        IF Truthy(Field(edited, "retentionType"))
        THEN edited.retentionType
        ELSE IF Truthy(baseSafe.numberOfVersionsRetention) THEN "versions" ELSE "days"
      retentionValue ==
        IF Truthy(Field(edited, "retentionValue"))
        THEN edited.retentionValue
        ELSE IF retentionType = "versions" THEN baseSafe.numberOfVersionsRetention
        ELSE baseSafe.numberOfDaysRetention
  IN [managingCPM |-> IF Field(edited, "managingCPM") # Undefined
                      THEN edited.managingCPM ELSE baseSafe.managingCPM,
      numberOfVersionsRetention |-> IF retentionType = "versions" THEN retentionValue
                                    ELSE Undefined,
      numberOfDaysRetention |-> IF retentionType = "days" THEN retentionValue
                                ELSE Undefined] @@ baseSafe

\* A save that keeps the role of the mirrored member.
EditedMemberKeepsRole(baseMember, edited) == edited @@ baseMember

\* const editedMember = { ...baseMember, ...editedMemberData, role: ... }
EditedMember(baseMember, edited) ==
  LET perms == IF "perms" \in DOMAIN edited THEN edited.perms
               ELSE IF "perms" \in DOMAIN baseMember THEN baseMember.perms
               ELSE EmptyObject
  IN [role |-> detectRoleFromPermissions(perms)] @@ edited @@ baseMember

\* const editedAccount = { ...base, ...editedAccountData }
EditedAccount(baseAccount, edited) == edited @@ baseAccount

-----------------------------------------------------------------------------
(* The modify sections (SafeModifySection, MemberModifySection,            *)
(* AccountModifySection): the edit session of a card and the save handlers. *)

\* list.map(x => x.id)
IdsOf(list) == {list[i].id : i \in 1..Len(list)}

\* list.find(x => x.id === id): the first entry with the id.
Find(list, id) ==
  list[CHOOSE i \in 1..Len(list) : list[i].id = id /\ \A j \in 1..(i - 1) : list[j].id # id]

\* A save that appends whether or not the id is staged.
UpsertAlwaysAppends(staged, id, edited) == Append(staged, edited)

\* A save that replaces the staged entry of the id and appends the edit too.
UpsertReplacesAndAppends(staged, id, edited) ==
  Append([i \in 1..Len(staged) |-> IF staged[i].id = id THEN edited ELSE staged[i]], edited)

\* stagedIds.includes(id) ? staged.map(x => x.id === id ? edited : x)
\*                        : [...staged, edited]
Upsert(staged, id, edited) ==
  IF id \in IdsOf(staged)
  THEN [i \in 1..Len(staged) |-> IF staged[i].id = id THEN edited ELSE staged[i]]
  ELSE Append(staged, edited)

\* The popup of a save: "... updated in staging!" or "... staged for modification!".
SaveNotice(staged, id, label) ==
  Notice("success", IF id \in IdsOf(staged) THEN "updated in staging" ELSE "staged for modification",
         label)

\* What an operator types or picks in an edit session.
EditedCPMInputs == {"PasswordManager"}
EditedRetentionInputs == {"7"}
EditedAccountInputs == {"svc_new"}
EditedTemplateInputs == {"SM-APP"}
EditedPermissionInputs == {"UseAccounts"}

\* The Edit button of a safe card; disabled while the safe is staged.
StartEditSafe(safeId) ==
  /\ OnTab("safe-modify")
  /\ safeId \in IdsOf(availableSafesForModification)
  /\ editingSafeId # safeId
  /\ safeId \notin IdsOf(stagedSafeModifications)
  /\ editingSafeId' = safeId
  /\ editedSafeData' = SafeEditStart(Find(availableSafesForModification, safeId))
  /\ UNCHANGED <<sessionVars, activeTab, popupVars, formVars, queueVars, mirrorVars, fetches,
                 editingMemberId, editedMemberData, editingAccountId, editedAccountData,
                 selectionVars, deployRuns>>

\* The inputs of the card being edited: setEditedSafeData({ ...editedSafeData, [field]: v }).
SetEditedSafe(field, v) ==
  /\ OnTab("safe-modify")
  /\ editingSafeId \in IdsOf(availableSafesForModification)
  /\ editedSafeData' = [x \in {field} |-> v] @@ editedSafeData
  /\ UNCHANGED <<sessionVars, activeTab, popupVars, formVars, queueVars, mirrorVars, fetches,
                 editingSafeId, editingMemberId, editedMemberData, editingAccountId,
                 editedAccountData, selectionVars, deployRuns>>

\* The Cancel button of the card being edited.
CancelEditSafe ==
  /\ OnTab("safe-modify")
  /\ editingSafeId \in IdsOf(availableSafesForModification)
  /\ editingSafeId' = Null
  /\ editedSafeData' = EmptyObject
  /\ UNCHANGED <<sessionVars, activeTab, popupVars, formVars, queueVars, mirrorVars, fetches,
                 editingMemberId, editedMemberData, editingAccountId, editedAccountData,
                 selectionVars, deployRuns>>

\* handleSaveModifiedSafe(safeId). The Save button sits on the card being
\* edited; the handler takes the id of any card of the mirror.
handleSaveModifiedSafe(safeId) ==
  /\ OnTab("safe-modify")
  /\ safeId \in IdsOf(availableSafesForModification)
  /\ LET baseSafe == Find(availableSafesForModification, safeId)
         editedSafe == EditedSafe(baseSafe, editedSafeData)
     IN /\ stagedSafeModifications' = Upsert(stagedSafeModifications, safeId, editedSafe)
        /\ Show(<<SaveNotice(stagedSafeModifications, safeId, editedSafe.name)>>)
  /\ editingSafeId' = Null
  /\ editedSafeData' = EmptyObject
  /\ UNCHANGED <<sessionVars, activeTab, formVars, stagedSafes, stagedMembers, stagedAccounts,
                 removalQueueVars, stagedMemberModifications, stagedAccountModifications,
                 mirrorVars, fetches, editingMemberId, editedMemberData, editingAccountId,
                 editedAccountData, selectionVars, deployRuns>>

\* The Edit button of a member card; disabled while the member is staged.
StartEditMember(memberId) ==
  /\ OnTab("member-modify")
  /\ memberId \in IdsOf(availableMembersForModification)
  /\ editingMemberId # memberId
  /\ memberId \notin IdsOf(stagedMemberModifications)
  /\ editingMemberId' = memberId
  /\ editedMemberData' = MemberEditStart(Find(availableMembersForModification, memberId))
  /\ UNCHANGED <<sessionVars, activeTab, popupVars, formVars, queueVars, mirrorVars, fetches,
                 editingSafeId, editedSafeData, editingAccountId, editedAccountData,
                 selectionVars, deployRuns>>

\* currentPerms of the card being edited: editedMemberData.perms, else the
\* member's own perms, else {}.
CurrentPerms(member) ==
  IF "perms" \in DOMAIN editedMemberData THEN editedMemberData.perms
  ELSE IF "perms" \in DOMAIN member THEN member.perms
  ELSE EmptyObject

\* A preset button of the card being edited: perms: PERM_TEMPLATES[t].
ApplyEditedMemberTemplate(t) ==
  /\ OnTab("member-modify")
  /\ editingMemberId \in IdsOf(availableMembersForModification)
  /\ editedMemberData' = [perms |-> TemplatePerms(t)] @@ editedMemberData
  /\ UNCHANGED <<sessionVars, activeTab, popupVars, formVars, queueVars, mirrorVars, fetches,
                 editingSafeId, editedSafeData, editingMemberId, editingAccountId,
                 editedAccountData, selectionVars, deployRuns>>

\* A checkbox of the rights grid: perms: { ...currentPerms, [perm]: checked }.
ToggleEditedMemberPermission(perm) ==
  /\ OnTab("member-modify")
  /\ editingMemberId \in IdsOf(availableMembersForModification)
  /\ LET currentPerms == CurrentPerms(Find(availableMembersForModification, editingMemberId))
     IN editedMemberData' =
          [perms |-> SpreadSet(currentPerms, perm, ~PermChecked(currentPerms, perm))]
          @@ editedMemberData
  /\ UNCHANGED <<sessionVars, activeTab, popupVars, formVars, queueVars, mirrorVars, fetches,
                 editingSafeId, editedSafeData, editingMemberId, editingAccountId,
                 editedAccountData, selectionVars, deployRuns>>

CancelEditMember ==
  /\ OnTab("member-modify")
  /\ editingMemberId \in IdsOf(availableMembersForModification)
  /\ editingMemberId' = Null
  /\ editedMemberData' = EmptyObject
  /\ UNCHANGED <<sessionVars, activeTab, popupVars, formVars, queueVars, mirrorVars, fetches,
                 editingSafeId, editedSafeData, editingAccountId, editedAccountData,
                 selectionVars, deployRuns>>

\* handleSaveModifiedMember(memberId)
handleSaveModifiedMember(memberId) ==
  /\ OnTab("member-modify")
  /\ memberId \in IdsOf(availableMembersForModification)
  /\ LET baseMember == Find(availableMembersForModification, memberId)
         editedMember == EditedMember(baseMember, editedMemberData)
     IN /\ stagedMemberModifications' = Upsert(stagedMemberModifications, memberId, editedMember)
        /\ Show(<<SaveNotice(stagedMemberModifications, memberId, editedMember.member)>>)
  /\ editingMemberId' = Null
  /\ editedMemberData' = EmptyObject
  /\ UNCHANGED <<sessionVars, activeTab, formVars, stagedSafes, stagedMembers, stagedAccounts,
                 removalQueueVars, stagedSafeModifications, stagedAccountModifications,
                 mirrorVars, fetches, editingSafeId, editedSafeData, editingAccountId,
                 editedAccountData, selectionVars, deployRuns>>

\* The Edit button of an account card: setEditingAccountId(account.id) alone;
\* disabled while the account is staged.
StartEditAccount(accountId) ==
  /\ OnTab("account-modify")
  /\ accountId \in IdsOf(availableAccountsForModification)
  /\ editingAccountId # accountId
  /\ accountId \notin IdsOf(stagedAccountModifications)
  /\ editingAccountId' = accountId
  /\ UNCHANGED <<sessionVars, activeTab, popupVars, formVars, queueVars, mirrorVars, fetches,
                 editingSafeId, editedSafeData, editingMemberId, editedMemberData,
                 editedAccountData, selectionVars, deployRuns>>

\* The inputs of the card being edited: username, address, platform.
SetEditedAccount(field, v) ==
  /\ OnTab("account-modify")
  /\ editingAccountId \in IdsOf(availableAccountsForModification)
  /\ editedAccountData' = [x \in {field} |-> v] @@ editedAccountData
  /\ UNCHANGED <<sessionVars, activeTab, popupVars, formVars, queueVars, mirrorVars, fetches,
                 editingSafeId, editedSafeData, editingMemberId, editedMemberData,
                 editingAccountId, selectionVars, deployRuns>>

CancelEditAccount ==
  /\ OnTab("account-modify")
  /\ editingAccountId \in IdsOf(availableAccountsForModification)
  /\ editingAccountId' = Null
  /\ editedAccountData' = EmptyObject
  /\ UNCHANGED <<sessionVars, activeTab, popupVars, formVars, queueVars, mirrorVars, fetches,
                 editingSafeId, editedSafeData, editingMemberId, editedMemberData,
                 selectionVars, deployRuns>>

\* handleSaveModifiedAccount(accountId)
handleSaveModifiedAccount(accountId) ==
  /\ OnTab("account-modify")
  /\ accountId \in IdsOf(availableAccountsForModification)
  /\ LET editedAccount ==
           EditedAccount(Find(availableAccountsForModification, accountId), editedAccountData)
     IN /\ stagedAccountModifications' =
             Upsert(stagedAccountModifications, accountId, editedAccount)
        /\ Show(<<SaveNotice(stagedAccountModifications, accountId, editedAccount.username)>>)
  /\ editingAccountId' = Null
  /\ editedAccountData' = EmptyObject
  /\ UNCHANGED <<sessionVars, activeTab, formVars, stagedSafes, stagedMembers, stagedAccounts,
                 removalQueueVars, stagedSafeModifications, stagedMemberModifications,
                 mirrorVars, fetches, editingSafeId, editedSafeData, editingMemberId,
                 editedMemberData, selectionVars, deployRuns>>

\* QueueSection onRemove(idx) of the three modification queues.
RemoveStagedSafeModification(idx) ==
  /\ OnTab("safe-modify")
  /\ idx \in 1..Len(stagedSafeModifications)
  /\ stagedSafeModifications' = RemoveAt(stagedSafeModifications, idx)
  /\ UNCHANGED <<sessionVars, activeTab, popupVars, formVars, stagedSafes, stagedMembers,
                 stagedAccounts, removalQueueVars, stagedMemberModifications,
                 stagedAccountModifications, manageVars, deployRuns>>

RemoveStagedMemberModification(idx) ==
  /\ OnTab("member-modify")
  /\ idx \in 1..Len(stagedMemberModifications)
  /\ stagedMemberModifications' = RemoveAt(stagedMemberModifications, idx)
  /\ UNCHANGED <<sessionVars, activeTab, popupVars, formVars, stagedSafes, stagedMembers,
                 stagedAccounts, removalQueueVars, stagedSafeModifications,
                 stagedAccountModifications, manageVars, deployRuns>>

RemoveStagedAccountModification(idx) ==
  /\ OnTab("account-modify")
  /\ idx \in 1..Len(stagedAccountModifications)
  /\ stagedAccountModifications' = RemoveAt(stagedAccountModifications, idx)
  /\ UNCHANGED <<sessionVars, activeTab, popupVars, formVars, stagedSafes, stagedMembers,
                 stagedAccounts, removalQueueVars, stagedSafeModifications,
                 stagedMemberModifications, manageVars, deployRuns>>

-----------------------------------------------------------------------------
(* The mirror refresh: the three useEffect hooks on [activeTab, authToken]. *)

\* a || b
Or(a, b) == IF Truthy(a) THEN a ELSE b

\* The conversion of one fetched safe, member, account to a mirror entry.
FormatSafe(safe) ==
  [id |-> Or(Field(safe, "safeName"), Field(safe, "id")),
   name |-> Or(Field(safe, "safeName"), Field(safe, "name")),
   managingCPM |-> Or(Field(safe, "managingCPM"), "CyberArk"),
   numberOfVersionsRetention |-> Or(Field(safe, "numberOfVersionsRetention"), Null),
   numberOfDaysRetention |-> Or(Field(safe, "numberOfDaysRetention"), Null)]

FormatMember(member) ==
  [id |-> Or(Field(member, "id"), Field(member, "memberName")),
   member |-> Or(Field(member, "memberName"), Field(member, "member")),
   domain |-> Or(Field(member, "searchIn"), Or(Field(member, "domain"), "Domain")),
   safe |-> Or(Field(member, "safeName"), Field(member, "safe")),
   role |-> Or(Field(member, "role"), "Contributor")]

FormatAccount(account) ==
  [id |-> Or(Field(account, "id"), Field(account, "object")),
   object |-> Or(Field(account, "id"), Field(account, "object")),
   username |-> Or(Field(account, "userName"), Field(account, "username")),
   address |-> Field(account, "address"),
   platform |-> Or(Field(account, "platformId"), Field(account, "platform")),
   safeName |-> Or(Field(account, "safeName"), Field(account, "safe"))]

\* Array.isArray(list) ? list.map(format) : []
Formatted(kind, value) ==
  IF value.kind = "array"
  THEN [i \in 1..Len(value.items) |->
          IF kind = "safe" THEN FormatSafe(value.items[i])
          ELSE IF kind = "member" THEN FormatMember(value.items[i])
          ELSE FormatAccount(value.items[i])]
  ELSE <<>>

\* A sidebar button of a modify or remove section: setActiveTab(tab), and the
\* effects that follow the render.
OpenManageTab(tab) ==
  /\ isLoggedIn
  /\ tab \in ManageTabs
  /\ activeTab # tab
  /\ activeTab' = tab
  /\ fetches' = EffectFetches(tab, authToken)
  /\ UNCHANGED <<sessionVars, popupVars, formVars, queueVars, mirrorVars, editVars,
                 selectionVars, deployRuns>>

\* What the servers of the scenarios answer to the list requests.
FetchedSafes ==
  << [safeName |-> "Finance-01", managingCPM |-> "PasswordManager",
      numberOfVersionsRetention |-> "5"],
     [id |-> "SAFE-002", name |-> "Test-Environment", numberOfDaysRetention |-> "30"] >>

FetchedMembers ==
  << [memberName |-> "alice", searchIn |-> "Vault", safeName |-> "Finance-01", role |-> "Auditor"],
     [id |-> "MEM-002", member |-> "temp.contractor", safe |-> "SAFE-002"] >>

FetchedAccounts ==
  << [id |-> "ACC-009", userName |-> "svc_backup", address |-> "10.0.0.9",
      platformId |-> "Linux", safeName |-> "Finance-01"],
     [object |-> "ACC-002", username |-> "db_admin", address |-> "db-server.local",
      platform |-> "SQLServer", safe |-> "SAFE-002"] >>

FetchedItems(kind) ==
  IF kind = "safe" THEN FetchedSafes
  ELSE IF kind = "member" THEN FetchedMembers
  ELSE FetchedAccounts

\* The answers to a list request of a kind: no answer, an error status, a
\* list of two items, an empty list, an object wrapping the list, and a
\* success status whose body does not parse.
ListResponses(kind) ==
  { NetworkFailure,
    HttpResponse(FALSE, "500", "Internal Server Error", TRUE,
                 ObjectBody(<<>>, "vault unavailable", Undefined)),
    HttpResponse(TRUE, "200", "OK", TRUE, ArrayBody(FetchedItems(kind))),
    HttpResponse(TRUE, "200", "OK", TRUE, ArrayBody(<<>>)),
    HttpResponse(TRUE, "200", "OK", TRUE, ObjectBody(FetchedItems(kind), Undefined, Undefined)),
    HttpResponse(TRUE, "200", "OK", FALSE, EmptyBody) }

\* The continuation of fetchSafes, fetchMembers or fetchAccounts after its
\* await: the i-th fetch in flight gets its answer.
FetchResponse(i, response) ==
  /\ i \in 1..Len(fetches)
  /\ response \in ListResponses(fetches[i].kind)
  /\ LET kind == fetches[i].kind
         result == makeAPIRequest(response)
         list == Formatted(kind, result.value)
         Refreshed(k, mirror) == IF kind = k /\ ~result.threw THEN list ELSE mirror
     IN /\ availableSafesForRemoval' = Refreshed("safe", availableSafesForRemoval)
        /\ availableSafesForModification' = Refreshed("safe", availableSafesForModification)
        /\ availableMembersForRemoval' = Refreshed("member", availableMembersForRemoval)
        /\ availableMembersForModification' = Refreshed("member", availableMembersForModification)
        /\ availableAccountsForRemoval' = Refreshed("account", availableAccountsForRemoval)
        /\ availableAccountsForModification' =
             Refreshed("account", availableAccountsForModification)
  /\ fetches' = RemoveAt(fetches, i)
  /\ UNCHANGED <<sessionVars, activeTab, popupVars, formVars, queueVars, editVars,
                 selectionVars, deployRuns>>

-----------------------------------------------------------------------------
(* The removal sections (SafeRemovalSection, MemberRemovalSection,         *)
(* AccountRemovalSection).  A selection is the set of ids whose value in   *)
(* selected*ForRemoval is true.                                            *)

\* { ...selected, [id]: !selected[id] }
Toggled(selected, id) == IF id \in selected THEN selected \ {id} ELSE selected \cup {id}

\* names.join(', ')
RECURSIVE Join(_)
Join(names) ==
  IF names = <<>> THEN ""
  ELSE IF Len(names) = 1 THEN names[1]
  ELSE names[1] \o ", " \o Join(Tail(names))

\* A card or its checkbox in the safe removal list; without effect on a
\* staged safe.
ToggleSelectedSafe(id) ==
  /\ OnTab("safe-remove")
  /\ id \in IdsOf(availableSafesForRemoval)
  /\ id \notin IdsOf(stagedSafeRemovals)
  /\ selectedSafesForRemoval' = Toggled(selectedSafesForRemoval, id)
  /\ UNCHANGED <<sessionVars, activeTab, popupVars, formVars, queueVars, mirrorVars, fetches,
                 editVars, selectedMembersForRemoval, selectedAccountsForRemoval, deployRuns>>

ToggleSelectedMember(id) ==
  /\ OnTab("member-remove")
  /\ id \in IdsOf(availableMembersForRemoval)
  /\ id \notin IdsOf(stagedMemberRemovals)
  /\ selectedMembersForRemoval' = Toggled(selectedMembersForRemoval, id)
  /\ UNCHANGED <<sessionVars, activeTab, popupVars, formVars, queueVars, mirrorVars, fetches,
                 editVars, selectedSafesForRemoval, selectedAccountsForRemoval, deployRuns>>

ToggleSelectedAccount(id) ==
  /\ OnTab("account-remove")
  /\ id \in IdsOf(availableAccountsForRemoval)
  /\ id \notin IdsOf(stagedAccountRemovals)
  /\ selectedAccountsForRemoval' = Toggled(selectedAccountsForRemoval, id)
  /\ UNCHANGED <<sessionVars, activeTab, popupVars, formVars, queueVars, mirrorVars, fetches,
                 editVars, selectedSafesForRemoval, selectedMembersForRemoval, deployRuns>>

\* available.filter(x => selectedIds.includes(x.id))
SelectedOf(available, selectedIds) ==
  LET IsSelected(x) == x.id \in selectedIds IN SelectSeq(available, IsSelected)

\* available.filter(x => selectedIds.includes(x.id) && !staged.some(s => s.id === x.id))
SelectedNotStaged(available, selectedIds, staged) ==
  LET Wanted(x) == x.id \in selectedIds /\ x.id \notin IdsOf(staged)
  IN SelectSeq(available, Wanted)

\* itemsToRemove.filter(item => stagedIds.includes(item.id))
Duplicates(itemsToRemove, staged) ==
  LET IsStaged(x) == x.id \in IdsOf(staged) IN SelectSeq(itemsToRemove, IsStaged)

\* handleStageSafeRemovals
handleStageSafeRemovals ==
  /\ OnTab("safe-remove")
  /\ LET selectedIds == selectedSafesForRemoval
         itemsToRemove ==
           SelectedNotStaged(availableSafesForRemoval, selectedIds, stagedSafeRemovals)
     IN IF selectedIds = {}
        THEN /\ Show(<<Notice("error", "Please select at least one Safe to remove!", "")>>)
             /\ UNCHANGED <<stagedSafeRemovals, selectedSafesForRemoval>>
        ELSE IF itemsToRemove = <<>>
        THEN /\ Show(<<Notice("warning", "All selected Safes are already queued!", "")>>)
             /\ UNCHANGED <<stagedSafeRemovals, selectedSafesForRemoval>>
        ELSE /\ stagedSafeRemovals' = stagedSafeRemovals \o itemsToRemove
             /\ selectedSafesForRemoval' = {}
             /\ UNCHANGED popupVars
  /\ UNCHANGED <<sessionVars, activeTab, formVars, stagedSafes, stagedMembers, stagedAccounts,
                 stagedMemberRemovals, stagedAccountRemovals, modifyQueueVars, mirrorVars,
                 fetches, editVars, selectedMembersForRemoval, selectedAccountsForRemoval,
                 deployRuns>>

\* handleStageMemberRemovals
handleStageMemberRemovals ==
  /\ OnTab("member-remove")
  /\ LET selectedIds == selectedMembersForRemoval
         itemsToRemove == SelectedOf(availableMembersForRemoval, selectedIds)
         duplicates == Duplicates(itemsToRemove, stagedMemberRemovals)
     IN IF selectedIds = {}
        THEN /\ Show(<<Notice("error", "Please select at least one Member to remove!", "")>>)
             /\ UNCHANGED <<stagedMemberRemovals, selectedMembersForRemoval>>
        ELSE IF duplicates # <<>>
        THEN /\ Show(<<Notice("warning",
                              "The following member(s) are already staged for removal",
                              Join([i \in 1..Len(duplicates) |-> duplicates[i].member]))>>)
             /\ UNCHANGED <<stagedMemberRemovals, selectedMembersForRemoval>>
        ELSE /\ stagedMemberRemovals' = stagedMemberRemovals \o itemsToRemove
             /\ selectedMembersForRemoval' = {}
             /\ UNCHANGED popupVars
  /\ UNCHANGED <<sessionVars, activeTab, formVars, stagedSafes, stagedMembers, stagedAccounts,
                 stagedSafeRemovals, stagedAccountRemovals, modifyQueueVars, mirrorVars,
                 fetches, editVars, selectedSafesForRemoval, selectedAccountsForRemoval,
                 deployRuns>>

\* handleStageAccountRemovals
handleStageAccountRemovals ==
  /\ OnTab("account-remove")
  /\ LET selectedIds == selectedAccountsForRemoval
         itemsToRemove == SelectedOf(availableAccountsForRemoval, selectedIds)
         duplicates == Duplicates(itemsToRemove, stagedAccountRemovals)
     IN IF selectedIds = {}
        THEN /\ Show(<<Notice("error", "Please select at least one Account to remove!", "")>>)
             /\ UNCHANGED <<stagedAccountRemovals, selectedAccountsForRemoval>>
        ELSE IF duplicates # <<>>
        THEN /\ Show(<<Notice("warning",
                              "The following account(s) are already staged for removal",
                              Join([i \in 1..Len(duplicates) |-> duplicates[i].username]))>>)
             /\ UNCHANGED <<stagedAccountRemovals, selectedAccountsForRemoval>>
        ELSE /\ stagedAccountRemovals' = stagedAccountRemovals \o itemsToRemove
             /\ selectedAccountsForRemoval' = {}
             /\ UNCHANGED popupVars
  /\ UNCHANGED <<sessionVars, activeTab, formVars, stagedSafes, stagedMembers, stagedAccounts,
                 stagedSafeRemovals, stagedMemberRemovals, modifyQueueVars, mirrorVars,
                 fetches, editVars, selectedSafesForRemoval, selectedMembersForRemoval,
                 deployRuns>>

\* QueueSection onRemove(idx) of the three removal queues.
RemoveStagedSafeRemoval(idx) ==
  /\ OnTab("safe-remove")
  /\ idx \in 1..Len(stagedSafeRemovals)
  /\ stagedSafeRemovals' = RemoveAt(stagedSafeRemovals, idx)
  /\ UNCHANGED <<sessionVars, activeTab, popupVars, formVars, stagedSafes, stagedMembers,
                 stagedAccounts, stagedMemberRemovals, stagedAccountRemovals, modifyQueueVars,
                 manageVars, deployRuns>>

RemoveStagedMemberRemoval(idx) ==
  /\ OnTab("member-remove")
  /\ idx \in 1..Len(stagedMemberRemovals)
  /\ stagedMemberRemovals' = RemoveAt(stagedMemberRemovals, idx)
  /\ UNCHANGED <<sessionVars, activeTab, popupVars, formVars, stagedSafes, stagedMembers,
                 stagedAccounts, stagedSafeRemovals, stagedAccountRemovals, modifyQueueVars,
                 manageVars, deployRuns>>

RemoveStagedAccountRemoval(idx) ==
  /\ OnTab("account-remove")
  /\ idx \in 1..Len(stagedAccountRemovals)
  /\ stagedAccountRemovals' = RemoveAt(stagedAccountRemovals, idx)
  /\ UNCHANGED <<sessionVars, activeTab, popupVars, formVars, stagedSafes, stagedMembers,
                 stagedAccounts, stagedSafeRemovals, stagedMemberRemovals, modifyQueueVars,
                 manageVars, deployRuns>>

-----------------------------------------------------------------------------
(* The request bodies of the deployment engine: the object the handler     *)
(* passes to the API method for a staged entry, and the payload the method *)
(* builds from it.                                                         *)

\* A loop that passes the staged value in both retention fields.
SafeCreateDataBothFields(safe) ==
  [name |-> safe.name, description |-> safe.description, managingCPM |-> safe.CPMManaging,
   numberOfVersionsRetention |-> safe.retentionValue,
   numberOfDaysRetention |-> safe.retentionValue]

\* The argument of safeAPI.create in the Create Safes loop.
SafeCreateData(safe) ==
  [name |-> safe.name, description |-> safe.description, managingCPM |-> safe.CPMManaging,
   numberOfVersionsRetention |->
     IF safe.retentionMode = "versions" THEN safe.retentionValue ELSE Null,
   numberOfDaysRetention |->
     IF safe.retentionMode = "days" THEN safe.retentionValue ELSE Null]

\* The payload of safeAPI.create: POST /safes.
SafeCreatePayload(safeData) ==
  [safeName |-> safeData.name,
   description |-> Or(safeData.description, ""),
   managingCPM |-> safeData.managingCPM,
   numberOfVersionsRetention |-> Or(safeData.numberOfVersionsRetention, Null),
   numberOfDaysRetention |-> Or(safeData.numberOfDaysRetention, Null)]

\* The argument of accountAPI.update in the Modify Accounts loop; a property
\* the staged entry does not have reads as undefined.
AccountUpdateData(account) ==
  [address |-> Field(account, "address"),
   secret |-> Field(account, "secret"),
   userName |-> Field(account, "userName"),
   automaticManagement |-> Field(account, "automaticManagement"),
   manualManagementReason |-> Field(account, "manualManagementReason")]

\* The payload of accountAPI.update: PUT /accounts/{id}.  A key is set only
\* for a value that is not undefined; a key that is not set reads as
\* undefined.
AccountUpdatePayload(updateData) ==
  [address |-> updateData.address,
   secret |-> updateData.secret,
   userName |-> updateData.userName,
   automaticManagementEnabled |-> updateData.automaticManagement,
   manualManagementReason |-> updateData.manualManagementReason]

-----------------------------------------------------------------------------
(* Queue contents of the scenarios: entries the staging handlers produce   *)
(* from the inputs above and from the initial mirrors.                     *)

SafeSamples ==
  << SafeEntry("Finance-01", "quarterly books", "PasswordManager", "versions", "10"),
     SafeEntry("Ops-02", "", "", "days", "10"),
     SafeEntry("Finance-01", "", "PasswordManager", "days", "10") >>

MemberSamples ==
  << MemberEntry("Finance-01", "alice", "Vault", TemplatePerms("SM-PROV")),
     MemberEntry("Finance-01", "G_PAM_ADMINS", "Vault", TemplatePerms("FULL")),
     MemberEntry("Finance-01", "alice", "Domain.example", EmptyObject) >>

AccountSamples ==
  << AccountEntry("x", "x", "x", "x", "x", "x", TRUE, "", ""),
     AccountEntry("x", "x", "x", "", "x", "x", FALSE, "x", "x"),
     AccountEntry("x", "x", "x", "x", "x", "x", FALSE, "", "x") >>

SafeModificationSamples ==
  [i \in 1..Len(InitialSafeMirror) |->
     EditedSafe(InitialSafeMirror[i], SafeEditStart(InitialSafeMirror[i]))]

MemberModificationSamples ==
  [i \in 1..Len(InitialMemberMirror) |->
     EditedMember(InitialMemberMirror[i], MemberEditStart(InitialMemberMirror[i]))]

AccountModificationSamples ==
  [i \in 1..Len(InitialAccountMirror) |-> EditedAccount(InitialAccountMirror[i], EmptyObject)]

\* The sample entries of each queue, in the order of DeployLoops.
QueueSamples ==
  << SafeSamples, MemberSamples, AccountSamples,
     InitialSafeMirror, InitialMemberMirror, InitialAccountMirror,
     SafeModificationSamples, MemberModificationSamples, AccountModificationSamples >>

RECURSIVE SumTo(_, _)
SumTo(n, l) == IF l = 0 THEN 0 ELSE n[l] + SumTo(n, l - 1)

\* How many entries each of the nine queues holds: at most MaxStaged in all.
QueueFillings ==
  {n \in [1..NumLoops -> 0..MaxStaged] :
     SumTo(n, NumLoops) <= MaxStaged /\ \A l \in 1..NumLoops : n[l] <= Len(QueueSamples[l])}

\* The nine queues hold the first n[l] sample entries each.
QueuesFilled(n) ==
  /\ stagedSafes = SubSeq(QueueSamples[1], 1, n[1])
  /\ stagedMembers = SubSeq(QueueSamples[2], 1, n[2])
  /\ stagedAccounts = SubSeq(QueueSamples[3], 1, n[3])
  /\ stagedSafeRemovals = SubSeq(QueueSamples[4], 1, n[4])
  /\ stagedMemberRemovals = SubSeq(QueueSamples[5], 1, n[5])
  /\ stagedAccountRemovals = SubSeq(QueueSamples[6], 1, n[6])
  /\ stagedSafeModifications = SubSeq(QueueSamples[7], 1, n[7])
  /\ stagedMemberModifications = SubSeq(QueueSamples[8], 1, n[8])
  /\ stagedAccountModifications = SubSeq(QueueSamples[9], 1, n[9])

-----------------------------------------------------------------------------
(* SpecDeploy: a session with staged work on the Review & Deploy tab.  The *)
(* operator clicks Deploy, any number of times up to MaxRuns, the vault    *)
(* answers each call with success or failure, and popups time out.         *)

InitDeploy ==
  /\ SessionOpen
  /\ activeTab = "review-deploy"
  /\ notification = NoNotification
  /\ shown = <<>>
  /\ customSafeName = "Ops-02"
  /\ safeDescription = ""
  /\ managingCPM = ""
  /\ retentionMode = "versions"
  /\ versionRetention = "10"
  /\ daysRetention = ""
  /\ MemberFormDefault
  /\ AccountFormDefault
  /\ \E n \in QueueFillings : QueuesFilled(n)
  /\ MirrorsInitial
  /\ ManageIdle
  /\ deployRuns = <<>>

NextDeploy ==
  \/ DeployClick
  \/ \E r \in 1..MaxRuns, ok \in BOOLEAN : DeployResponse(r, ok)
  \/ NotificationTimeout

SpecDeploy == InitDeploy /\ [][NextDeploy]_vars

-----------------------------------------------------------------------------
(* Properties of the deployment engine.                                    *)

Runs == 1..Len(deployRuns)

\* The calls all runs have issued for the entry `item` through `api`.
CallsFor(api, item) ==
  UNION {{<<r, i>> : i \in {j \in 1..Len(deployRuns[r].issued) :
                                /\ deployRuns[r].issued[j].api = api
                                /\ deployRuns[r].issued[j].item = item}} : r \in Runs}

\* The calls that have been issued and have neither returned nor failed.
CallsInFlight == {r \in Runs : deployRuns[r].pending # <<>>}

\* C1: every staged entry of a deploy run gets exactly one API call, never
\* two, whatever else is clicked before the run finishes: no entry has been
\* the subject of more than one call, and a finished run leaves exactly one
\* call per entry.
C1_OneCallPerStagedEntry ==
  \A r \in Runs :
    /\ \A i \in 1..Len(deployRuns[r].issued) :
         Cardinality(CallsFor(deployRuns[r].issued[i].api, deployRuns[r].issued[i].item)) = 1
    /\ deployRuns[r].done => Len(deployRuns[r].issued) = deployRuns[r].totalItems

\* The order of the queues and their operations as the specification lists it.
ClaimedOrder ==
  << <<"stagedSafes", "safeAPI.create">>,
     <<"stagedMembers", "memberAPI.add">>,
     <<"stagedAccounts", "accountAPI.create">>,
     <<"stagedSafeRemovals", "safeAPI.delete">>,
     <<"stagedMemberRemovals", "memberAPI.remove">>,
     <<"stagedAccountRemovals", "accountAPI.delete">>,
     <<"stagedSafeModifications", "safeAPI.update">>,
     <<"stagedMemberModifications", "memberAPI.updatePermissions">>,
     <<"stagedAccountModifications", "accountAPI.update">> >>

\* The entries of a snapshot, queue by queue in the claimed order and in
\* insertion order within a queue, each with the operation of its queue.
RECURSIVE ClaimedCalls(_, _)
ClaimedCalls(snapshot, k) ==
  IF k > Len(ClaimedOrder) THEN <<>>
  ELSE [i \in 1..Len(snapshot[ClaimedOrder[k][1]]) |->
          <<ClaimedOrder[k][2], snapshot[ClaimedOrder[k][1]][i]>>]
       \o ClaimedCalls(snapshot, k + 1)

\* C2: a deploy run issues its calls in the fixed queue order safe-create,
\* member-create, account-create, safe-remove, member-remove,
\* account-remove, safe-modify, member-modify, account-modify, and in
\* insertion order within a queue: what a run has issued so far is a prefix
\* of its staged entries listed in that order.
C2_CallsInFixedQueueOrder ==
  \A r \in Runs :
    LET issued == deployRuns[r].issued
        claimed == ClaimedCalls(deployRuns[r].snapshot, 1)
    IN /\ Len(issued) <= Len(claimed)
       /\ \A i \in 1..Len(issued) : <<issued[i].api, issued[i].item>> = claimed[i]

\* A finished run over an account removal and a safe modification: it
\* deleted the account before it updated the safe.
C2_Witness ==
  \E r \in Runs :
    /\ deployRuns[r].done
    /\ Len(deployRuns[r].issued) = 2
    /\ deployRuns[r].issued[1].api = "accountAPI.delete"
    /\ deployRuns[r].issued[2].api = "safeAPI.update"

\* The popups of one entry's outcome: they carry the operation's name.
IsOutcomeNotice(n, type) ==
  n.type = type /\ n.text \in {DeployLoops[l].api : l \in 1..NumLoops}

\* C3: the failure of the call for an entry never keeps the run from the
\* next entry, in the same or a later queue.  Whenever a run's awaited call
\* returns or fails, the turn shows one success popup for a success and one
\* error popup for a failure, and then either issues the call of the next
\* staged entry or, every entry having had its call, shows the completion
\* popup.
C3_FailureNeverStopsRun ==
  [][\A r \in 1..MaxRuns, ok \in BOOLEAN :
       DeployResponse(r, ok) =>
         LET before == deployRuns[r]
             after == deployRuns'[r]
         IN /\ IsOutcomeNotice(shown'[1], IF ok THEN "success" ELSE "error")
            /\ Len(shown') = 2
            /\ ~IsOutcomeNotice(shown'[2], "success")
            /\ ~IsOutcomeNotice(shown'[2], "error")
            /\ IF Len(before.issued) < before.totalItems
               THEN /\ ~after.done
                    /\ Len(after.issued) = Len(before.issued) + 1
                    /\ after.pending = <<after.issued[Len(after.issued)]>>
               ELSE /\ after.done
                    /\ Len(after.issued) = after.totalItems
                    /\ notification' = CompletionNotice(after)]_vars

\* The first call of a two-entry run has failed and the run awaits the call
\* of its second entry.
C3_Witness ==
  \E r \in Runs :
    /\ deployRuns[r].totalItems = 2
    /\ Len(deployRuns[r].issued) = 2
    /\ ~deployRuns[r].done
    /\ Len(shown) = 2
    /\ shown[1] = Notice("error", deployRuns[r].issued[1].api,
                         Field(deployRuns[r].issued[1].item, "name"))
    /\ deployRuns[r].issued[1].api = "safeAPI.create"
    /\ deployRuns[r].issued[2].api = "memberAPI.remove"

\* C4: a deploy run leaves the nine queues alone until every staged entry
\* has had its call, and its completing turn leaves all nine queues empty,
\* however many calls failed.
C4_QueuesClearedOnlyAtCompletion ==
  [][/\ (DeployClick /\ ~QueuesEmpty) => UNCHANGED queueVars
     /\ \A r \in 1..MaxRuns, ok \in BOOLEAN :
          DeployResponse(r, ok) =>
            IF deployRuns'[r].done
            THEN /\ notification' = CompletionNotice(deployRuns'[r])
                 /\ \A q \in QueueNames : Queues'[q] = <<>>
            ELSE UNCHANGED queueVars]_vars

\* A run over a safe removal and a member modification has completed, the
\* last call having failed, and the queues are empty.
C4_Witness ==
  /\ QueuesEmpty
  /\ \E r \in Runs :
       /\ deployRuns[r].done
       /\ deployRuns[r].snapshot["stagedSafeRemovals"] # <<>>
       /\ deployRuns[r].snapshot["stagedMemberModifications"] # <<>>
       /\ Len(shown) = 2
       /\ shown[1].type = "error"
       /\ shown[2] = CompletionNotice(deployRuns[r])

\* C5: at most one deployment call is in flight in any state.
C5_AtMostOneCallInFlight == Cardinality(CallsInFlight) <= 1

\* C6: the Deploy handler, invoked while all nine queues are empty, issues
\* no call, shows the 'No staged items to deploy!' warning and leaves
\* queues, mirrors and session unchanged.
C6_EmptyDeployIsNoOp ==
  [][(DeployClick /\ QueuesEmpty) =>
       /\ shown' = <<Notice("warning", "No staged items to deploy!", "")>>
       /\ notification' = Notice("warning", "No staged items to deploy!", "")
       /\ UNCHANGED <<queueVars, mirrorVars, sessionVars, deployRuns>>]_vars

\* The warning is on screen over empty queues and no run was ever started.
C6_Witness ==
  /\ QueuesEmpty
  /\ deployRuns = <<>>
  /\ notification = Notice("warning", "No staged items to deploy!", "")

-----------------------------------------------------------------------------
(* SpecCreate: a session on one of the three create tabs, its form filled  *)
(* in any way the inputs allow and its queue holding up to MaxStaged       *)
(* entries staged before.  The operator stages, unstages, and popups time  *)
(* out.  The stage buttons of the forms are rendered disabled while a      *)
(* required field is empty (the Enter key of the safe name input is not);  *)
(* the handlers keep their own checks and are modelled as invocable in     *)
(* every state of their form.                                              *)

\* The selection and the per-member permissions after a sequence of clicks
\* on standard member cards, starting with nothing selected.
RECURSIVE StandardSelectionAfter(_)
StandardSelectionAfter(clicks) ==
  IF clicks = <<>> THEN [selection |-> EmptyObject, permissions |-> EmptyObject]
  ELSE LET before == StandardSelectionAfter(SubSeq(clicks, 1, Len(clicks) - 1))
           m == clicks[Len(clicks)]
       IN [selection |-> ToggledSelection(before.selection, m),
           permissions |-> ToggledPermissions(before.permissions, m)]

StandardMemberClicks ==
  { <<>>, <<"G_PAM_ADMINS">>, <<"G_PAM_ADMINS", "G_PROVISIONING_AUTOMATION">>,
    <<"G_PROVISIONING_AUTOMATION", "G_PAM_ADMINS">>, <<"G_PAM_ADMINS", "G_PAM_ADMINS">> }

\* Permission mappings of the custom member form: untouched, one box
\* ticked, a template applied.
MemberPermissionInputs ==
  { EmptyObject, SpreadSet(EmptyObject, "UseAccounts", TRUE), TemplatePerms("SM-PROV") }

OtherQueuesEmpty ==
  /\ stagedSafeRemovals = <<>>
  /\ stagedMemberRemovals = <<>>
  /\ stagedAccountRemovals = <<>>
  /\ stagedSafeModifications = <<>>
  /\ stagedMemberModifications = <<>>
  /\ stagedAccountModifications = <<>>

InitCreateSafe ==
  /\ activeTab = "safe"
  /\ customSafeName \in SafeNameInputs
  /\ safeDescription \in DescriptionInputs
  /\ managingCPM \in CPMInputs
  /\ retentionMode \in RetentionModes
  /\ versionRetention \in RetentionInputs
  /\ daysRetention \in RetentionInputs
  /\ MemberFormDefault
  /\ AccountFormDefault
  /\ \E k \in 0..MaxStaged : stagedSafes = SubSeq(SafeSamples, 1, k)
  /\ stagedMembers = <<>>
  /\ stagedAccounts = <<>>

InitCreateMember ==
  /\ activeTab = "member"
  /\ SafeFormDefault
  /\ targetSafe \in TargetSafeInputs
  /\ memberName \in MemberNameInputs
  /\ memberDomain \in MemberDomains
  /\ memberPermissions \in MemberPermissionInputs
  /\ \E clicks \in StandardMemberClicks :
       /\ standardMembersSelection = StandardSelectionAfter(clicks).selection
       /\ standardMembersPermissions = StandardSelectionAfter(clicks).permissions
  /\ AccountFormDefault
  /\ stagedSafes = <<>>
  /\ \E k \in 0..MaxStaged : stagedMembers = SubSeq(MemberSamples, 1, k)
  /\ stagedAccounts = <<>>

InitCreateAccount ==
  /\ activeTab = "account"
  /\ SafeFormDefault
  /\ MemberFormDefault
  /\ accObject \in AccountTextInputs
  /\ accAddress \in AccountTextInputs
  /\ accUsername \in AccountTextInputs
  /\ accPassword \in AccountTextInputs
  /\ accPlatformId \in AccountTextInputs
  /\ accSafeName \in AccountTextInputs
  /\ accAutoMgmt \in BOOLEAN
  /\ accManualReason \in (IF accAutoMgmt THEN {""} ELSE AccountTextInputs)
  /\ accRemoteMachines \in AccountTextInputs
  /\ stagedSafes = <<>>
  /\ stagedMembers = <<>>
  /\ \E k \in 0..MaxStaged : stagedAccounts = SubSeq(AccountSamples, 1, k)

InitCreate ==
  /\ SessionOpen
  /\ notification = NoNotification
  /\ shown = <<>>
  /\ InitCreateSafe \/ InitCreateMember \/ InitCreateAccount
  /\ OtherQueuesEmpty
  /\ MirrorsInitial
  /\ ManageIdle
  /\ deployRuns = <<>>

NextCreate ==
  \/ handleAddSafeToStage
  \/ handleAddStandardMembers
  \/ handleAddCustomMember
  \/ handleAddAccountToQueue
  \/ \E idx \in 1..(MaxStaged + 1) : RemoveStagedSafe(idx)
  \/ \E idx \in 1..(MaxStaged + 2) : RemoveStagedMember(idx)
  \/ \E idx \in 1..(MaxStaged + 1) : RemoveStagedAccount(idx)
  \/ NotificationTimeout

SpecCreate == InitCreate /\ [][NextCreate]_vars

-----------------------------------------------------------------------------
(* Properties of staging for creation.                                     *)

\* The required fields of each form as the specification lists them.
SafeRequiredPresent ==
  /\ customSafeName \notin {"", " "}
  /\ IF retentionMode = "versions" THEN versionRetention # "" ELSE daysRetention # ""

CustomMemberRequiredPresent == targetSafe # "" /\ memberName # ""

StandardMembersRequiredPresent ==
  /\ targetSafe # ""
  /\ \E i \in 1..Len(standardMembersSelection) : standardMembersSelection[i].value

AccountRequiredPresent ==
  /\ accObject # ""
  /\ accAddress # ""
  /\ accUsername # ""
  /\ accPlatformId # ""
  /\ accSafeName # ""

\* queue' is queue with n entries appended at its end.
GrowsBy(queue, n) ==
  /\ Len(queue') = Len(queue) + n
  /\ SubSeq(queue', 1, Len(queue)) = queue

C10_InvalidStagingChangesNothing ==
  [][(\/ handleAddSafeToStage /\ ~SafeRequiredPresent
      \/ handleAddCustomMember /\ ~CustomMemberRequiredPresent
      \/ handleAddStandardMembers /\ targetSafe = ""
      \/ handleAddAccountToQueue /\ ~AccountRequiredPresent) =>
       /\ UNCHANGED <<queueVars, formVars, deployRuns, mirrorVars, sessionVars>>
       /\ Len(shown') = 1
       /\ shown'[1].type = "error"
       /\ notification' = shown'[1]]_vars

\* The account handler has refused a form that lacks only the platform id.
C10_Witness ==
  /\ notification = Notice("error", "Please fill required fields!", "")
  /\ accPlatformId = ""
  /\ accObject = "x"
  /\ accAddress = "x"
  /\ accUsername = "x"
  /\ accSafeName = "x"
  /\ stagedAccounts = <<>>

-----------------------------------------------------------------------------
(* SpecRole: a session on the member tab with a target safe and a member   *)
(* name typed in.  The permission mapping is untouched or has its first    *)
(* twenty boxes ticked in grid order; the operator applies templates,      *)
(* toggles the two authorization-level boxes and stages the member.        *)

RoleToggleInputs == {"RequestsAuthorizationLevel1", "RequestsAuthorizationLevel2"}

\* The mapping after ticking, from {}, the first n boxes of the grid in order.
RECURSIVE TickedInGridOrder(_)
TickedInGridOrder(n) ==
  IF n = 0 THEN EmptyObject
  ELSE SpreadSet(TickedInGridOrder(n - 1), PERMISSION_KEYS[n], TRUE)

RolePermissionStarts ==
  {EmptyObject, TickedInGridOrder(NumPermissionKeys - Cardinality(RoleToggleInputs))}

InitRole ==
  /\ SessionOpen
  /\ activeTab = "member"
  /\ notification = NoNotification
  /\ shown = <<>>
  /\ SafeFormDefault
  /\ targetSafe = "Finance-01"
  /\ memberName = "alice"
  /\ memberDomain = "Vault"
  /\ memberPermissions \in RolePermissionStarts
  /\ standardMembersSelection = EmptyObject
  /\ standardMembersPermissions = EmptyObject
  /\ AccountFormDefault
  /\ QueuesEmpty
  /\ MirrorsInitial
  /\ ManageIdle
  /\ deployRuns = <<>>

NextRole ==
  \/ \E t \in TemplateInputs : ApplyMemberTemplate(t)
  \/ \E perm \in RoleToggleInputs : ToggleMemberPermission(perm)
  \/ handleAddCustomMember

SpecRole == InitRole /\ [][NextRole]_vars

-----------------------------------------------------------------------------
(* Properties of role detection.                                           *)

\* The key/value pairs of a mapping, whatever the order of its keys.
Pairs(obj) == {<<obj[i].key, obj[i].value>> : i \in 1..Len(obj)}

\* Two mappings are equal by value: the same keys with the same values.
DeepEqual(a, b) == Pairs(a) = Pairs(b)

AllFalse(obj) == Pairs(obj) = {<<k, FALSE>> : k \in SeqToSet(PERMISSION_KEYS)}

\* C7: a staged member whose permissions are equal by value to one of the
\* six templates carries that template's own name as role label; the
\* all-false set carries "NONE"; a set equal to no template carries
\* "Custom".
C7_TemplateReturnsOwnName ==
  \A i \in 1..Len(stagedMembers) :
    LET entry == stagedMembers[i]
    IN /\ \A t \in TemplateNames :
            DeepEqual(entry.perms, TemplatePerms(t)) => entry.roleLabel = t
       /\ AllFalse(entry.perms) => entry.roleLabel = "NONE"
       /\ (\A t \in TemplateNames : ~DeepEqual(entry.perms, TemplatePerms(t)))
            => entry.roleLabel = "Custom"

\* The first template, in declaration order, deep-equal to the mapping.
FirstDeepEqual(obj) ==
  LET hits == {i \in 1..Len(PERM_TEMPLATES) : DeepEqual(obj, PERM_TEMPLATES[i].perms)}
  IN IF hits = {} THEN "Custom"
     ELSE PERM_TEMPLATES[CHOOSE i \in hits : \A j \in hits : i <= j].name

\* C8: the role label of a staged member is the name of the first template
\* deep-equal to its permissions, "Custom" when there is none, whatever the
\* order in which the boxes were ticked.
C8_RoleIndependentOfToggleOrder ==
  \A i \in 1..Len(stagedMembers) :
    stagedMembers[i].roleLabel = FirstDeepEqual(stagedMembers[i].perms)

-----------------------------------------------------------------------------
(* Scenario: the three modify sections of an open session, from an empty   *)
(* modification queue, with the mirrors of the useState initialisers.      *)

ModifyTabs == {"safe-modify", "member-modify", "account-modify"}

InitModify ==
  /\ SessionOpen
  /\ activeTab \in ModifyTabs
  /\ notification = NoNotification
  /\ shown = <<>>
  /\ SafeFormDefault
  /\ MemberFormDefault
  /\ AccountFormDefault
  /\ QueuesEmpty
  /\ MirrorsInitial
  /\ ManageIdle
  /\ deployRuns = <<>>

\* A save that would append is taken only while the queue is below the bound.
RoomFor(staged, id) == id \in IdsOf(staged) \/ Len(staged) < MaxStaged

NextModify ==
  \/ \E id \in IdsOf(availableSafesForModification) : StartEditSafe(id)
  \/ \E v \in EditedCPMInputs : SetEditedSafe("managingCPM", v)
  \/ \E v \in RetentionModes : SetEditedSafe("retentionType", v)
  \/ \E v \in EditedRetentionInputs : SetEditedSafe("retentionValue", v)
  \/ CancelEditSafe
  \/ \E id \in IdsOf(availableSafesForModification) :
       RoomFor(stagedSafeModifications, id) /\ handleSaveModifiedSafe(id)
  \/ \E id \in IdsOf(availableMembersForModification) : StartEditMember(id)
  \/ \E t \in EditedTemplateInputs : ApplyEditedMemberTemplate(t)
  \/ \E perm \in EditedPermissionInputs : ToggleEditedMemberPermission(perm)
  \/ CancelEditMember
  \/ \E id \in IdsOf(availableMembersForModification) :
       RoomFor(stagedMemberModifications, id) /\ handleSaveModifiedMember(id)
  \/ \E id \in IdsOf(availableAccountsForModification) : StartEditAccount(id)
  \/ \E f \in {"username", "address"}, v \in EditedAccountInputs :
       SetEditedAccount(f, v)
  \/ CancelEditAccount
  \/ \E id \in IdsOf(availableAccountsForModification) :
       RoomFor(stagedAccountModifications, id) /\ handleSaveModifiedAccount(id)
  \/ \E idx \in 1..(MaxStaged + 1) : RemoveStagedSafeModification(idx)
  \/ \E idx \in 1..(MaxStaged + 1) : RemoveStagedMemberModification(idx)
  \/ \E idx \in 1..(MaxStaged + 1) : RemoveStagedAccountModification(idx)

SpecModify == InitModify /\ [][NextModify]_vars

\* new is old with the entry of the id replaced in place when old holds the
\* id, and old with one entry of the id appended otherwise.
Upserted(old, new, id) ==
  IF \E i \in 1..Len(old) : old[i].id = id
  THEN /\ Len(new) = Len(old)
       /\ \A i \in 1..Len(old) :
            /\ old[i].id # id => new[i] = old[i]
            /\ old[i].id = id => new[i].id = id
  ELSE /\ Len(new) = Len(old) + 1
       /\ SubSeq(new, 1, Len(old)) = old
       /\ new[Len(new)].id = id

\* C11: saving an edit of a safe, member or account is an upsert on its
\* modification queue: an entry with the id already staged is replaced in
\* place, the queue keeping its length and every other entry its place;
\* otherwise exactly one entry is appended. Either way the edit session is
\* closed: no id is being edited and the edited data is empty.
C11_SaveIsUpsert ==
  [][/\ \A id \in IdsOf(availableSafesForModification) :
          handleSaveModifiedSafe(id) =>
            /\ Upserted(stagedSafeModifications, stagedSafeModifications', id)
            /\ editingSafeId' = Null /\ editedSafeData' = EmptyObject
     /\ \A id \in IdsOf(availableMembersForModification) :
          handleSaveModifiedMember(id) =>
            /\ Upserted(stagedMemberModifications, stagedMemberModifications', id)
            /\ editingMemberId' = Null /\ editedMemberData' = EmptyObject
     /\ \A id \in IdsOf(availableAccountsForModification) :
          handleSaveModifiedAccount(id) =>
            /\ Upserted(stagedAccountModifications, stagedAccountModifications', id)
            /\ editingAccountId' = Null /\ editedAccountData' = EmptyObject]_vars

\* A save has replaced the first of two staged safes, and closed the session.
C11_Witness ==
  /\ Len(stagedSafeModifications) = 2
  /\ shown = <<Notice("success", "updated in staging", stagedSafeModifications[1].name)>>
  /\ stagedSafeModifications[1].managingCPM = "PasswordManager"
  /\ editingSafeId = Null
  /\ editedSafeData = EmptyObject

-----------------------------------------------------------------------------
(* Scenario: a removal section just opened in an open session: the fetch   *)
(* its tab started is in flight, nothing is staged or ticked.              *)

RemoveTabs == {"safe-remove", "member-remove", "account-remove"}

InitRemove ==
  /\ SessionOpen
  /\ activeTab \in RemoveTabs
  /\ fetches = <<[kind |-> KindOf(activeTab), token |-> authToken, tab |-> activeTab]>>
  /\ notification = NoNotification
  /\ shown = <<>>
  /\ SafeFormDefault
  /\ MemberFormDefault
  /\ AccountFormDefault
  /\ QueuesEmpty
  /\ MirrorsInitial
  /\ SectionsIdle
  /\ deployRuns = <<>>

NextRemove ==
  \/ \E id \in IdsOf(availableSafesForRemoval) : ToggleSelectedSafe(id)
  \/ \E id \in IdsOf(availableMembersForRemoval) : ToggleSelectedMember(id)
  \/ \E id \in IdsOf(availableAccountsForRemoval) : ToggleSelectedAccount(id)
  \/ handleStageSafeRemovals
  \/ handleStageMemberRemovals
  \/ handleStageAccountRemovals
  \/ \E idx \in 1..Len(stagedSafeRemovals) : RemoveStagedSafeRemoval(idx)
  \/ \E idx \in 1..Len(stagedMemberRemovals) : RemoveStagedMemberRemoval(idx)
  \/ \E idx \in 1..Len(stagedAccountRemovals) : RemoveStagedAccountRemoval(idx)
  \/ \E i \in 1..Len(fetches) : \E response \in ListResponses(fetches[i].kind) :
       FetchResponse(i, response)

SpecRemove == InitRemove /\ [][NextRemove]_vars

\* C12: staging safe removals never duplicates an id in the removal queue
\* and counts the selection: with N selected safes that are not staged the
\* queue gains exactly N entries; with every selected safe staged already
\* the queue is unchanged and a warning is shown; the same holds when the
\* safe mirror was refreshed between selecting and staging.
C12_SafeStagingCountsSelection ==
  [][handleStageSafeRemovals =>
       LET notStaged == selectedSafesForRemoval \ IdsOf(stagedSafeRemovals)
       IN /\ Len(stagedSafeRemovals') = Len(stagedSafeRemovals) + Cardinality(notStaged)
          /\ \A i, j \in 1..Len(stagedSafeRemovals') :
               stagedSafeRemovals'[i].id = stagedSafeRemovals'[j].id => i = j
          /\ (selectedSafesForRemoval # {} /\ notStaged = {}) =>
               /\ UNCHANGED stagedSafeRemovals
               /\ shown' = <<Notice("warning", "All selected Safes are already queued!", "")>>
     ]_vars

-----------------------------------------------------------------------------
(* Scenario: the member and account stage handlers as functions of what     *)
(* they read: the selection, the mirror and the removal queue.  The        *)
(* checkboxes of staged entries are disabled, so a selection that overlaps  *)
(* the queue is an input of the handler that the section itself does not    *)
(* produce.                                                                 *)

RECURSIVE SeqsUpTo(_, _)
\* The sequences of at most n entries of a list.
SeqsUpTo(list, n) ==
  IF n = 0 THEN {<<>>}
  ELSE LET shorter == SeqsUpTo(list, n - 1)
       IN shorter \cup
          {Append(s, list[i]) : s \in {t \in shorter : Len(t) = n - 1},
                                i \in 1..Len(list)}

NoRepeat(s) == \A i, j \in 1..Len(s) : s[i] = s[j] => i = j

InitStageCall ==
  /\ SessionOpen
  /\ activeTab \in {"member-remove", "account-remove"}
  /\ fetches = <<>>
  /\ notification = NoNotification
  /\ shown = <<>>
  /\ SafeFormDefault
  /\ MemberFormDefault
  /\ AccountFormDefault
  /\ stagedSafes = <<>> /\ stagedMembers = <<>> /\ stagedAccounts = <<>>
  /\ stagedSafeModifications = <<>>
  /\ stagedMemberModifications = <<>>
  /\ stagedAccountModifications = <<>>
  /\ stagedSafeRemovals = <<>>
  /\ MirrorsInitial
  /\ editingSafeId = Null /\ editedSafeData = EmptyObject
  /\ editingMemberId = Null /\ editedMemberData = EmptyObject
  /\ editingAccountId = Null /\ editedAccountData = EmptyObject
  /\ selectedSafesForRemoval = {}
  /\ IF activeTab = "member-remove"
     THEN /\ selectedMembersForRemoval \in SUBSET IdsOf(InitialMemberMirror)
          /\ stagedMemberRemovals \in
               {s \in SeqsUpTo(InitialMemberMirror, MaxStaged) : NoRepeat(s)}
          /\ selectedAccountsForRemoval = {}
          /\ stagedAccountRemovals = <<>>
     ELSE /\ selectedAccountsForRemoval \in SUBSET IdsOf(InitialAccountMirror)
          /\ stagedAccountRemovals \in
               {s \in SeqsUpTo(InitialAccountMirror, MaxStaged) : NoRepeat(s)}
          /\ selectedMembersForRemoval = {}
          /\ stagedMemberRemovals = <<>>
  /\ deployRuns = <<>>

NextStageCall ==
  \/ handleStageMemberRemovals
  \/ handleStageAccountRemovals

SpecStageCall == InitStageCall /\ [][NextStageCall]_vars

\* The selected entries of a mirror that are not staged, in mirror order.
Fresh(available, selectedIds, staged) ==
  LET IsFresh(x) == x.id \in selectedIds /\ x.id \notin IdsOf(staged)
  IN SelectSeq(available, IsFresh)

-----------------------------------------------------------------------------
(* Scenario: the session, from the construction of App: the login screen,  *)
(* the debug button of a debug build, and Logout.                          *)

NextSession ==
  \/ \E v \in VaultUrlInputs : SetVaultUrl(v)
  \/ \E v \in UsernameInputs : SetUsername(v)
  \/ \E v \in PasswordInputs : SetPassword(v)
  \/ authenticate
  \/ \E response \in LoginResponses : LoginResponse(response)
  \/ DebugLogin
  \/ Logout
  \/ NotificationTimeout

SpecSession == Init /\ [][NextSession]_vars

\* C14: in every reachable state the logged-in flag is true exactly when
\* the in-memory token is non-empty.
C14_LoggedInIffToken == isLoggedIn <=> authToken # ""

\* The body of a login answer carries a token: an object with a non-empty
\* token property, or a non-empty bare string.
CarriesToken(response) ==
  /\ response.parses
  /\ \/ response.body.kind = "object" /\ Truthy(response.body.token)
     \/ response.body.kind = "string" /\ response.body.text # ""

\* C15: a login attempt fails whenever the response is not successful or its
\* body carries no token: the session stays as it was, no token is stored,
\* the URL and username fields are left unchanged and an error message is
\* set.
C15_LoginFailsWithoutToken ==
  [][\A response \in LoginResponses :
       (LoginResponse(response) /\ (response.rejected \/ ~response.ok \/ ~CarriesToken(response)))
         => /\ UNCHANGED <<isLoggedIn, authToken, storageVars, vaultUrl, username>>
            /\ authError' # ""]_vars

\* C16: authenticate with the URL, the username or the password empty makes
\* no network call, sets the error message "Please enter PVWA URL, username,
\* and password.", leaves the session unauthenticated and storage unchanged.
C16_EmptyFieldsMakeNoCall ==
  [][(authenticate /\ (vaultUrl = "" \/ username = "" \/ password = ""))
       => /\ UNCHANGED <<loginRequest, isAuthenticating, isLoggedIn, authToken, storageVars>>
          /\ ~loginRequest'.pending
          /\ ~isLoggedIn'
          /\ authError' = "Please enter PVWA URL, username, and password."]_vars

\* The Authenticate button was clicked with the password missing.
C16_Witness ==
  /\ vaultUrl # "" /\ username # "" /\ password = ""
  /\ authError = "Please enter PVWA URL, username, and password."
  /\ shown = <<Notice("error", "Please enter PVWA URL, username, and password.", "")>>
  /\ ~loginRequest.pending
  /\ ~isLoggedIn

\* C17: Logout clears the stored token and the stored vault URL and leaves
\* the in-memory token empty and the logged-in flag false; while a session is
\* open after a login, the token is present in memory and in storage.
C17_LogoutClearsLoginStores ==
  [][/\ Logout => /\ storedToken' = Null /\ storedUrl' = Null
                  /\ authToken' = "" /\ ~isLoggedIn'
     /\ isLoggedIn' => /\ authToken' # "" /\ storedToken' # Null /\ storedUrl' # Null]_vars

\* A session opened by a login has been closed by Logout.
C17_Witness ==
  /\ ~DEBUG_MODE
  /\ shown = <<Notice("success", "Logged out successfully", "")>>
  /\ ~isLoggedIn /\ authToken = "" /\ storedToken = Null /\ storedUrl = Null

\* C19: in a build with the debug flag off the session becomes authenticated
\* only by a login call that returned a successful response.
C19_NoBypassWithoutDebug ==
  [][(~DEBUG_MODE /\ ~isLoggedIn /\ isLoggedIn')
       => \E response \in LoginResponses :
            /\ ~response.rejected /\ response.ok
            /\ loginRequest.pending
            /\ LoginResponse(response)]_vars

\* A session opened by a login in a build with the debug flag off.
C19_Witness ==
  /\ ~DEBUG_MODE
  /\ isLoggedIn
  /\ authToken = "token-1"
  /\ shown = <<Notice("success", "Successfully authenticated with CyberArk!", "")>>

-----------------------------------------------------------------------------
(* Scenario: the mirror refresh.  Either a session is open on the          *)
(* dashboard, or the operator has logged out on a modify or remove tab and *)
(* clicked Authenticate again, the login request being in flight.          *)

\* The most mirror fetches in flight at once.
MaxFetches == 2

InitMirror ==
  /\ \/ /\ SessionOpen
        /\ activeTab = "dashboard"
     \/ /\ DEBUG_MODE = FALSE
        /\ isLoggedIn = FALSE
        /\ authToken = ""
        /\ vaultUrl = "https://vault.example"
        /\ username = "admin"
        /\ password = "secret"
        /\ authError = ""
        /\ isAuthenticating = TRUE
        /\ loginRequest = [pending |-> TRUE, vaultUrl |-> vaultUrl, username |-> username]
        /\ storedToken = Null
        /\ storedUrl = Null
        /\ activeTab \in ManageTabs
  /\ notification = NoNotification
  /\ shown = <<>>
  /\ SafeFormDefault
  /\ MemberFormDefault
  /\ AccountFormDefault
  /\ QueuesEmpty
  /\ MirrorsInitial
  /\ ManageIdle
  /\ deployRuns = <<>>

NextMirror ==
  \/ \E tab \in ManageTabs : Len(fetches) < MaxFetches /\ OpenManageTab(tab)
  \/ SetActiveTab("dashboard")
  \/ \E i \in 1..Len(fetches) : \E response \in ListResponses(fetches[i].kind) :
       FetchResponse(i, response)
  \/ \E response \in LoginResponses : LoginResponse(response)
  \/ Logout

SpecMirror == InitMirror /\ [][NextMirror]_vars

\* The two mirrors of a kind after the step.
MirrorsAfter(kind) ==
  IF kind = "safe" THEN <<availableSafesForRemoval', availableSafesForModification'>>
  ELSE IF kind = "member" THEN <<availableMembersForRemoval', availableMembersForModification'>>
  ELSE <<availableAccountsForRemoval', availableAccountsForModification'>>

\* C18: a mirror fetch of a kind starts only in a step that leaves a modify
\* or remove tab of that kind active with a token present; when the fetch
\* fails every mirror keeps its snapshot; when it does not fail the two
\* mirrors of the kind are replaced by the same list, one entry per fetched
\* item, so they are empty only if the server's list is.
C18_RefreshReplacesBothMirrors ==
  [][/\ Len(fetches') > Len(fetches) =>
          /\ KindOf(activeTab') = fetches'[Len(fetches')].kind
          /\ authToken' # ""
     /\ \A i \in 1..Len(fetches) : \A response \in ListResponses(fetches[i].kind) :
          FetchResponse(i, response) =>
            IF response.rejected \/ ~response.ok
            THEN UNCHANGED mirrorVars
            ELSE /\ MirrorsAfter(fetches[i].kind)[1] = MirrorsAfter(fetches[i].kind)[2]
                 /\ MirrorsAfter(fetches[i].kind)[1] = <<>> =>
                      /\ response.parses
                      /\ response.body.items = <<>>
    ]_vars

-----------------------------------------------------------------------------
(* Scenario: an open session with one safe staged for creation, in which   *)
(* the operator has gone from the safe removal tab to the review tab while *)
(* the fetch of the removal tab is in flight; they deploy and, on the safe *)
(* tab, stage further safes, while the server answers each request in any  *)
(* way.                                                                    *)

\* The answers to the request of a staged entry: no answer, error statuses
\* whose body carries error, carries message, does not parse or is null, and
\* success statuses with a body, without one and with one that does not
\* parse.
ItemResponses ==
  { NetworkFailure,
    HttpResponse(FALSE, "500", "Internal Server Error", TRUE,
                 ObjectBody(<<>>, "vault unavailable", Undefined)),
    HttpResponse(FALSE, "404", "Not Found", TRUE,
                 ObjectBody(<<>>, Undefined, "Safe was not found")),
    HttpResponse(FALSE, "502", "Bad Gateway", FALSE, EmptyBody),
    HttpResponse(FALSE, "400", "Bad Request", TRUE, NullBody),
    HttpResponse(TRUE, "201", "Created", TRUE, EmptyBody),
    HttpResponse(TRUE, "204", "No Content", FALSE, EmptyBody),
    HttpResponse(TRUE, "200", "OK", FALSE, EmptyBody) }

\* The request run r awaits gets its answer: the await of the API method in
\* the try block of the entry returns what makeAPIRequest returns or throws
\* what it throws into the catch block of the entry.
DeployAnswer(r, response) ==
  /\ response \in ItemResponses
  /\ DeployResponse(r, ~makeAPIRequest(response).threw)

\* One safe staged for creation, nothing else.
OneSafeStaged == QueuesFilled([l \in 1..NumLoops |-> IF l = 1 THEN 1 ELSE 0])

InitRequests ==
  /\ SessionOpen
  /\ activeTab = "review-deploy"
  /\ fetches = <<[kind |-> "safe", token |-> authToken, tab |-> "safe-remove"]>>
  /\ notification = NoNotification
  /\ shown = <<>>
  /\ SafeFormDefault
  /\ MemberFormDefault
  /\ AccountFormDefault
  /\ OneSafeStaged
  /\ MirrorsInitial
  /\ SectionsIdle
  /\ deployRuns = <<>>

NextRequests ==
  \/ SetActiveTab("safe")
  \/ SetCustomSafeName("Ops-02")
  \/ SetRetentionValue("10")
  \/ NothingToDeploy /\ handleAddSafeToStage
  \/ SetActiveTab("review-deploy")
  \/ \E i \in 1..Len(fetches) : \E response \in ListResponses(fetches[i].kind) :
       FetchResponse(i, response)
  \/ DeployClick
  \/ \E r \in 1..Len(deployRuns) : \E response \in ItemResponses : DeployAnswer(r, response)

SpecRequests == InitRequests /\ [][NextRequests]_vars

\* The request of the response failed: fetch() rejected or the status is not
\* a 2xx one.
Failed(response) == response.rejected \/ ~response.ok

\* The messages of the errors underlying a failure: the rejection of
\* fetch(), the error or the message of the body, the status line, and the
\* TypeError of reading a null body.
RawMessages(response) ==
  { response.statusText, response.body.error, response.body.message,
    "API Error " \o response.status \o ": " \o response.statusText,
    "Cannot read properties of null (reading 'error')" }

\* What the caller of makeAPIRequest gets for a response: for a failure one
\* error whose message is an underlying message behind the prefix of the
\* wrapper, for a success status the body, the empty object standing for a
\* body that is empty or does not parse.
Surfaces(response) ==
  LET result == makeAPIRequest(response)
  IN IF Failed(response)
     THEN /\ result.threw
          /\ result.message \notin RawMessages(response)
          /\ \E raw \in RawMessages(response) :
               result.message = "CyberArk API Request Failed: " \o raw
     ELSE /\ ~result.threw
          /\ ~response.parses => result.value = EmptyBody

\* C20: every failed request (no answer, a status that is not 2xx, with a
\* body that parses or not) reaches its caller as one error wrapped by the
\* API layer, never as the underlying error, and a success status without a
\* parsable body as the empty object.  The failure of an entry's request in
\* a deploy run is caught in the turn: it shows one error popup and the run
\* goes on to its next request or to its completion.  The failure of a
\* mirror fetch is caught in the turn: it changes nothing but the fetch
\* having ended.  Either way the session stays open on the same tab.
C20_FailuresAreWrappedAndCaught ==
  [][/\ deployRuns' # deployRuns =>
          \A r \in 1..Len(deployRuns) : \A ok \in BOOLEAN :
            DeployResponse(r, ok) =>
              /\ \A response \in ItemResponses :
                   makeAPIRequest(response).threw = ~ok =>
                     Surfaces(response) /\ Failed(response) = ~ok
              /\ ~ok =>
                   /\ IsOutcomeNotice(shown'[1], "error")
                   /\ \A k \in 2..Len(shown') : ~IsOutcomeNotice(shown'[k], "error")
                   /\ deployRuns'[r].done \/ deployRuns'[r].pending # <<>>
                   /\ isLoggedIn' /\ activeTab' = activeTab
     /\ Len(fetches') < Len(fetches) =>
          \A i \in 1..Len(fetches) : \A response \in ListResponses(fetches[i].kind) :
            FetchResponse(i, response) =>
              /\ Surfaces(response)
              /\ Failed(response) =>
                   /\ isLoggedIn'
                   /\ UNCHANGED <<sessionVars, activeTab, popupVars, formVars, queueVars,
                                  mirrorVars, editVars, selectionVars, deployRuns>>
    ]_vars

\* After a fetch that failed (the mirror still shows its first snapshot) and
\* a first run, another safe was staged and deployed by a second run, whose
\* request has just failed: the run is over all the same.
C20_Witness ==
  /\ isLoggedIn
  /\ fetches = <<>>
  /\ availableSafesForRemoval = InitialSafeMirror
  /\ Len(deployRuns) = 2
  /\ deployRuns[1].done
  /\ Len(deployRuns[2].snapshot.stagedSafes) = 1
  /\ deployRuns[2].snapshot.stagedSafes[1].name = "Ops-02"
  /\ deployRuns[2].done
  /\ IsOutcomeNotice(shown[1], "error")
  /\ NothingToDeploy

-----------------------------------------------------------------------------
(* Scenario: an open session on the safe tab with the create form filled   *)
(* in, either retention mode selected and either retention field typed;    *)
(* the operator stages safes, edits and saves the retention of mirrored    *)
(* safes on the safe modify tab, and deploys on the review tab.            *)

InitRetention ==
  /\ SessionOpen
  /\ activeTab = "safe"
  /\ notification = NoNotification
  /\ shown = <<>>
  /\ customSafeName = "Ops-02"
  /\ safeDescription = ""
  /\ managingCPM = ""
  /\ retentionMode \in RetentionModes
  /\ versionRetention \in {"", "10"}
  /\ daysRetention \in {"", "30"}
  /\ MemberFormDefault
  /\ AccountFormDefault
  /\ QueuesEmpty
  /\ MirrorsInitial
  /\ ManageIdle
  /\ deployRuns = <<>>

\* The cards the operator edits: a safe the mirror shows with versions and
\* one it shows with days.
EditedSafes == {"SAFE-001", "SAFE-002"}

\* The operator goes from the safe tab to the safe modify tab and from there
\* to the review tab, and saves while no other safe is staged for
\* modification.
NextRetention ==
  \/ handleAddSafeToStage
  \/ activeTab = "safe" /\ OpenManageTab("safe-modify")
  \/ \E i \in 1..Len(fetches) : \E response \in ListResponses(fetches[i].kind) :
       FetchResponse(i, response)
  \/ \E id \in EditedSafes : StartEditSafe(id)
  \/ \E v \in RetentionModes : SetEditedSafe("retentionType", v)
  \/ \E v \in {""} \cup EditedRetentionInputs : SetEditedSafe("retentionValue", v)
  \/ \E id \in EditedSafes :
       /\ IdsOf(stagedSafeModifications) \subseteq {id}
       /\ handleSaveModifiedSafe(id)
  \/ activeTab = "safe-modify" /\ SetActiveTab("review-deploy")
  \/ DeployClick
  \/ \E r \in 1..Len(deployRuns), ok \in BOOLEAN : DeployResponse(r, ok)

SpecRetention == InitRetention /\ [][NextRetention]_vars

\* The retention field of a mode and the field of the other mode.
RetentionField(mode) ==
  IF mode = "versions" THEN "numberOfVersionsRetention" ELSE "numberOfDaysRetention"
OtherRetentionField(mode) ==
  IF mode = "versions" THEN "numberOfDaysRetention" ELSE "numberOfVersionsRetention"

\* The POST /safes payload of a staged safe carries the staged value in the
\* field of its mode and null in the other field.
OneRetentionInPayload(safe) ==
  LET payload == SafeCreatePayload(SafeCreateData(safe))
  IN /\ safe.retentionMode \in RetentionModes
     /\ Truthy(safe.retentionValue)
     /\ payload[RetentionField(safe.retentionMode)] = safe.retentionValue
     /\ payload[OtherRetentionField(safe.retentionMode)] = Null

\* The retention mode the save handler works with: the one selected in the
\* edit session, else the one the mirrored safe has.
ModeAtSave(safeId) ==
  IF Truthy(Field(editedSafeData, "retentionType")) THEN editedSafeData.retentionType
  ELSE IF Truthy(Find(availableSafesForModification, safeId).numberOfVersionsRetention)
  THEN "versions" ELSE "days"

\* C21: retention modes are mutually exclusive end to end.  Every safe in
\* the create queue, and every safe whose creation a deploy run has
\* requested, gives a POST /safes payload with the staged value in the field
\* of the selected mode and null in the other field.  Every entry of the
\* safe modification queue has at most one of numberOfVersionsRetention and
\* numberOfDaysRetention populated, and a save leaves the field of the mode
\* that was not selected in the edit session unpopulated.
C21_RetentionModesExclusive ==
  /\ [](/\ \A i \in 1..Len(stagedSafes) : OneRetentionInPayload(stagedSafes[i])
        /\ \A r \in 1..Len(deployRuns) : \A c \in 1..Len(deployRuns[r].issued) :
             deployRuns[r].issued[c].api = "safeAPI.create" =>
               OneRetentionInPayload(deployRuns[r].issued[c].item)
        /\ \A i \in 1..Len(stagedSafeModifications) :
             ~(/\ Truthy(stagedSafeModifications[i].numberOfVersionsRetention)
               /\ Truthy(stagedSafeModifications[i].numberOfDaysRetention)))
  /\ [][\A id \in IdsOf(availableSafesForModification) :
          handleSaveModifiedSafe(id) =>
            \A i \in 1..Len(stagedSafeModifications') :
              stagedSafeModifications'[i].id = id =>
                ~Truthy(stagedSafeModifications'[i][OtherRetentionField(ModeAtSave(id))])]_vars

\* A run has requested the creation of a safe staged with a number of days
\* while the versions field of the form was typed too, and a safe that the
\* mirror shows with versions is staged for modification with days.
C21_Witness ==
  /\ \E r \in 1..Len(deployRuns) : \E c \in 1..Len(deployRuns[r].issued) :
       /\ deployRuns[r].issued[c].api = "safeAPI.create"
       /\ deployRuns[r].issued[c].item.retentionMode = "days"
  /\ \E r \in 1..Len(deployRuns) : \E c \in 1..Len(deployRuns[r].issued) :
       /\ deployRuns[r].issued[c].api = "safeAPI.update"
       /\ deployRuns[r].issued[c].item.id = "SAFE-001"
       /\ Truthy(deployRuns[r].issued[c].item.numberOfDaysRetention)
       /\ ~Truthy(deployRuns[r].issued[c].item.numberOfVersionsRetention)

-----------------------------------------------------------------------------
(* Scenario: an open session on the member tab with a target safe and a    *)
(* member name typed in; the operator sets permissions by template and by  *)
(* checkbox, stages the custom member and standard members, then edits and *)
(* saves the permissions of mirrored members on the member modify tab.     *)

\* The templates, the standard member and the cards the operator clicks.
RoleTemplateInputs == {"SM-APP"}
RoleCheckboxInputs == {"RequestsAuthorizationLevel1"}
RoleStandardMembers == {"G_PROVISIONING_AUTOMATION"}
EditedMembers == {"MEM-002"}

InitMemberRole ==
  /\ SessionOpen
  /\ activeTab = "member"
  /\ notification = NoNotification
  /\ shown = <<>>
  /\ SafeFormDefault
  /\ targetSafe = "Finance-01"
  /\ memberName = "alice"
  /\ memberDomain = "Vault"
  /\ memberPermissions = EmptyObject
  /\ standardMembersSelection = EmptyObject
  /\ standardMembersPermissions = EmptyObject
  /\ AccountFormDefault
  /\ QueuesEmpty
  /\ MirrorsInitial
  /\ ManageIdle
  /\ deployRuns = <<>>

NextMemberRole ==
  \/ \E t \in RoleTemplateInputs : ApplyMemberTemplate(t)
  \/ \E perm \in RoleCheckboxInputs : ToggleMemberPermission(perm)
  \/ Len(stagedMembers) < MaxStaged /\ handleAddCustomMember
  \/ \E m \in RoleStandardMembers : toggleStandardMember(m)
  \/ Len(stagedMembers) < MaxStaged /\ handleAddStandardMembers
  \/ activeTab = "member" /\ OpenManageTab("member-modify")
  \/ \E i \in 1..Len(fetches) : \E response \in ListResponses(fetches[i].kind) :
       FetchResponse(i, response)
  \/ \E id \in EditedMembers : StartEditMember(id)
  \/ \E t \in EditedTemplateInputs : ApplyEditedMemberTemplate(t)
  \/ \E perm \in EditedPermissionInputs : ToggleEditedMemberPermission(perm)
  \/ \E id \in EditedMembers :
       RoomFor(stagedMemberModifications, id) /\ handleSaveModifiedMember(id)

SpecMemberRole == InitMemberRole /\ [][NextMemberRole]_vars

\* The role the detection gives for the perms of an entry; an entry without
\* perms has JSON text undefined, which equals the text of no template.
RoleOfEntry(entry) ==
  IF "perms" \in DOMAIN entry THEN detectRoleFromPermissions(entry.perms) ELSE "Custom"

\* C22: the role label of a staged member is the one detected from its
\* permissions: every entry of the member create queue has
\* roleLabel = detectRoleFromPermissions(perms), and every entry of the
\* member modification queue has role = detectRoleFromPermissions of the
\* perms of that entry.
C22_RoleDerivedFromPerms ==
  /\ \A i \in 1..Len(stagedMembers) :
       stagedMembers[i].roleLabel = detectRoleFromPermissions(stagedMembers[i].perms)
  /\ \A i \in 1..Len(stagedMemberModifications) :
       stagedMemberModifications[i].role = RoleOfEntry(stagedMemberModifications[i])

\* A custom member is staged with a template's label, and a mirrored member
\* whose mirror role is Auditor is staged for modification with the label of
\* the template applied in its edit session.
C22_Witness ==
  /\ \E i \in 1..Len(stagedMembers) :
       stagedMembers[i].member = "alice" /\ stagedMembers[i].roleLabel = "SM-APP"
  /\ \E i \in 1..Len(stagedMemberModifications) :
       /\ stagedMemberModifications[i].id = "MEM-002"
       /\ stagedMemberModifications[i].role = "SM-APP"
       /\ Find(availableMembersForModification, "MEM-002").role # "SM-APP"

-----------------------------------------------------------------------------
(* Scenario: an open session on the review tab with one safe staged for    *)
(* creation; the operator deploys and, going to the safe tab and back,     *)
(* stages further safes, before, during and after the runs.                *)

InitStageAndDeploy ==
  /\ SessionOpen
  /\ activeTab = "review-deploy"
  /\ notification = NoNotification
  /\ shown = <<>>
  /\ SafeFormDefault
  /\ MemberFormDefault
  /\ AccountFormDefault
  /\ OneSafeStaged
  /\ MirrorsInitial
  /\ ManageIdle
  /\ deployRuns = <<>>

NextStageAndDeploy ==
  \/ SetActiveTab("safe")
  \/ SetCustomSafeName("Ops-02")
  \/ SetRetentionValue("10")
  \/ Len(stagedSafes) < MaxStaged /\ handleAddSafeToStage
  \/ SetActiveTab("review-deploy")
  \/ DeployClick
  \/ \E r \in 1..Len(deployRuns), ok \in BOOLEAN : DeployResponse(r, ok)

SpecStageAndDeploy == InitStageAndDeploy /\ [][NextStageAndDeploy]_vars

\* Some run has, after the step, issued the call of its loop for the entry
\* of the queue.
Submitted(q, entry) ==
  \E r \in 1..Len(deployRuns') : \E c \in 1..Len(deployRuns'[r].issued) :
    /\ deployRuns'[r].issued[c].item = entry
    /\ \E l \in 1..NumLoops :
         DeployLoops[l].queue = q /\ DeployLoops[l].api = deployRuns'[r].issued[c].api

\* C23: no staged item is lost.  The operator removing nothing, whenever a
\* step takes entries out of a staging queue, each entry the queue held has
\* been submitted in an API call by some deploy run, also when it was staged
\* while a run was awaiting a response.
C23_NoStagedItemLost ==
  [][\A q \in QueueNames :
       Len(Queues'[q]) < Len(Queues[q]) =>
         \A i \in 1..Len(Queues[q]) : Submitted(q, Queues[q][i])]_vars

-----------------------------------------------------------------------------
(* Properties of the account edit session, on SpecModify.                  *)

\* C24: the edits of the edit session of one account are never applied to
\* another account.  The entry a save stages for an account is the mirrored
\* account overlaid with the edits the session holds, and a session started
\* on an account while another account is being edited holds no edit of
\* the earlier session: the entry later staged for the second account has
\* only its mirrored fields and the edits made while it was being edited.
C24_EditsStayWithTheirAccount ==
  [][\A id \in IdsOf(availableAccountsForModification) :
       /\ handleSaveModifiedAccount(id) =>
            \E i \in 1..Len(stagedAccountModifications') :
              stagedAccountModifications'[i] =
                editedAccountData @@ Find(availableAccountsForModification, id)
       /\ (StartEditAccount(id) /\ editingAccountId # Null) =>
            editedAccountData' = EmptyObject]_vars

-----------------------------------------------------------------------------
(* Scenario: an open session on the account modify tab showing the first   *)
(* snapshot; the operator edits usernames and addresses, saves, and        *)
(* deploys on the review tab.                                              *)

InitAccountEdit ==
  /\ SessionOpen
  /\ activeTab = "account-modify"
  /\ notification = NoNotification
  /\ shown = <<>>
  /\ SafeFormDefault
  /\ MemberFormDefault
  /\ AccountFormDefault
  /\ QueuesEmpty
  /\ MirrorsInitial
  /\ ManageIdle
  /\ deployRuns = <<>>

NextAccountEdit ==
  \/ \E id \in IdsOf(availableAccountsForModification) : StartEditAccount(id)
  \/ \E f \in {"username", "address"}, v \in EditedAccountInputs : SetEditedAccount(f, v)
  \/ CancelEditAccount
  \/ \E id \in IdsOf(availableAccountsForModification) :
       RoomFor(stagedAccountModifications, id) /\ handleSaveModifiedAccount(id)
  \/ SetActiveTab("review-deploy")
  \/ DeployClick
  \/ \E r \in 1..Len(deployRuns), ok \in BOOLEAN : DeployResponse(r, ok)

SpecAccountEdit == InitAccountEdit /\ [][NextAccountEdit]_vars

\* C25: the username an operator edits on an account reaches the vault: for
\* every PUT /accounts/{id} call a run issues for an entry of the account
\* modification queue whose username differs from the one the mirror shows
\* for the account, the payload carries the edited username.
C25_EditedUsernameReachesVault ==
  \A r \in 1..Len(deployRuns) : \A c \in 1..Len(deployRuns[r].issued) :
    LET call == deployRuns[r].issued[c]
    IN (/\ call.api = "accountAPI.update"
        /\ call.item.username # Find(availableAccountsForModification, call.item.id).username)
         => AccountUpdatePayload(AccountUpdateData(call.item)).userName = call.item.username

-----------------------------------------------------------------------------
(* Scenario: an open session on the review tab with two safes staged for   *)
(* creation, left behind on the removal and modify tabs either nothing or  *)
(* a ticked safe and an account edit session; the operator deploys, logs   *)
(* out and logs in again, in any order.                                    *)

TwoSafesStaged == QueuesFilled([l \in 1..NumLoops |-> IF l = 1 THEN 2 ELSE 0])

InitRelogin ==
  /\ SessionOpen
  /\ activeTab = "review-deploy"
  /\ notification = NoNotification
  /\ shown = <<>>
  /\ SafeFormDefault
  /\ MemberFormDefault
  /\ AccountFormDefault
  /\ TwoSafesStaged
  /\ MirrorsInitial
  /\ fetches = <<>>
  /\ editingSafeId = Null /\ editedSafeData = EmptyObject
  /\ editingMemberId = Null /\ editedMemberData = EmptyObject
  /\ \/ /\ editingAccountId = Null /\ editedAccountData = EmptyObject
        /\ selectedSafesForRemoval = {}
     \/ /\ editingAccountId = "ACC-001" /\ editedAccountData = [username |-> "svc_new"]
        /\ selectedSafesForRemoval = {"SAFE-002"}
  /\ selectedMembersForRemoval = {}
  /\ selectedAccountsForRemoval = {}
  /\ deployRuns = <<>>

NextRelogin ==
  \/ DeployClick
  \/ \E r \in 1..Len(deployRuns), ok \in BOOLEAN : DeployResponse(r, ok)
  \/ Logout
  \/ SetVaultUrl("https://vault.example")
  \/ SetUsername("admin")
  \/ SetPassword("secret")
  \/ authenticate
  \/ \E response \in LoginResponses : LoginResponse(response)

SpecRelogin == InitRelogin /\ [][NextRelogin]_vars

\* C26: after logout no deployment call is issued with the bearer token of
\* the session logged out: whenever a run issues a call, a session is open
\* and the call carries the token of that session, so a run in flight at
\* logout issues no call for its remaining entries.
C26_NoCallAfterLogout ==
  [][\A r \in 1..Len(deployRuns) :
       Len(deployRuns'[r].issued) > Len(deployRuns[r].issued) =>
         /\ isLoggedIn
         /\ deployRuns'[r].issued[Len(deployRuns'[r].issued)].token = authToken]_vars

\* C27: Logout changes session fields only: the nine staging queues, the
\* mirrors, the removal selections and the edit sessions are as before the
\* click, while the flag, the token, the URL, the username and the two
\* stored items are cleared.
C27_LogoutKeepsStagedWork ==
  [][Logout =>
       /\ UNCHANGED <<queueVars, mirrorVars, selectionVars, editVars>>
       /\ ~isLoggedIn' /\ authToken' = "" /\ vaultUrl' = "" /\ username' = ""
       /\ storedToken' = Null /\ storedUrl' = Null]_vars

\* After a logout with two safes staged, a ticked safe and an edit session
\* left behind, and a login that gave another token, a run requests the
\* creation of the first staged safe under the new token.
C27_Witness ==
  /\ isLoggedIn
  /\ authToken = "token-2"
  /\ selectedSafesForRemoval = {"SAFE-002"}
  /\ editedAccountData = [username |-> "svc_new"]
  /\ Len(deployRuns) = 1
  /\ deployRuns[1].token = "token-2"
  /\ Len(deployRuns[1].snapshot.stagedSafes) = 2
  /\ deployRuns[1].pending # <<>>
  /\ deployRuns[1].pending[1].token = "token-2"

-----------------------------------------------------------------------------
(* Properties of the removal selections, on SpecRemove.                    *)

\* No id ticked in a removal list is in the removal queue of its kind.
SelectedApartFromStaged ==
  /\ selectedSafesForRemoval \cap IdsOf(stagedSafeRemovals) = {}
  /\ selectedMembersForRemoval \cap IdsOf(stagedMemberRemovals) = {}
  /\ selectedAccountsForRemoval \cap IdsOf(stagedAccountRemovals) = {}

\* C28: in every reachable state no id marked selected in a removal
\* selection is in the removal queue of its kind, and so no stage-removal
\* handler takes its "already staged" warning branch: called with a
\* selection, it never leaves the selection standing.
C28_SelectedNeverStaged ==
  /\ []SelectedApartFromStaged
  /\ [][/\ handleStageSafeRemovals =>
            (selectedSafesForRemoval # {} => selectedSafesForRemoval' = {})
        /\ handleStageMemberRemovals =>
            (selectedMembersForRemoval # {} => selectedMembersForRemoval' = {})
        /\ handleStageAccountRemovals =>
            (selectedAccountsForRemoval # {} => selectedAccountsForRemoval' = {})]_vars

-----------------------------------------------------------------------------
(* Scenario: the removal and modify sections of one resource kind and the  *)
(* Review & Deploy tab.  The removal section of the kind has just been     *)
(* opened in an open session, its fetch is in flight; the operator ticks   *)
(* and stages removals, edits and saves, removes staged entries, goes to   *)
(* the other section of the kind (a new fetch) once the fetch before has  *)
(* answered, deploys once, and comes back to the removal section when the  *)
(* deployment is the removal of the first sample row.  Every list the      *)
(* servers answer with has pairwise distinct ids, as the initial mirrors   *)
(* have.                                                                   *)

\* The rows the operator works on: one a sample only, one that the fetched
\* lists hold as well.
WorkedIds == {"SAFE-001", "SAFE-002", "MEM-001", "MEM-002", "ACC-001", "ACC-002"}

\* The entries of a run's snapshot in the removal and modify queues of a kind.
DeployedOfKind(run, kind) ==
  IF kind = "safe"
  THEN run.snapshot["stagedSafeRemovals"] \o run.snapshot["stagedSafeModifications"]
  ELSE IF kind = "member"
  THEN run.snapshot["stagedMemberRemovals"] \o run.snapshot["stagedMemberModifications"]
  ELSE run.snapshot["stagedAccountRemovals"] \o run.snapshot["stagedAccountModifications"]

\* The first row of the initial mirror of a kind.
FirstSample(kind) ==
  IF kind = "safe" THEN InitialSafeMirror[1]
  ELSE IF kind = "member" THEN InitialMemberMirror[1]
  ELSE InitialAccountMirror[1]

InitQueueIds == InitRemove

NextQueueIds ==
  \/ \E id \in WorkedIds : ToggleSelectedSafe(id)
  \/ \E id \in WorkedIds : ToggleSelectedMember(id)
  \/ \E id \in WorkedIds : ToggleSelectedAccount(id)
  \/ Len(stagedSafeRemovals) <= MaxStaged /\ handleStageSafeRemovals
  \/ Len(stagedMemberRemovals) <= MaxStaged /\ handleStageMemberRemovals
  \/ Len(stagedAccountRemovals) <= MaxStaged /\ handleStageAccountRemovals
  \/ \E idx \in 1..Len(stagedSafeRemovals) : RemoveStagedSafeRemoval(idx)
  \/ \E idx \in 1..Len(stagedMemberRemovals) : RemoveStagedMemberRemoval(idx)
  \/ \E idx \in 1..Len(stagedAccountRemovals) : RemoveStagedAccountRemoval(idx)
  \/ \E id \in WorkedIds : StartEditSafe(id)
  \/ \E id \in WorkedIds : StartEditMember(id)
  \/ \E id \in WorkedIds : StartEditAccount(id)
  \/ \E id \in WorkedIds :
       Len(stagedSafeModifications) <= MaxStaged /\ handleSaveModifiedSafe(id)
  \/ \E id \in WorkedIds :
       Len(stagedMemberModifications) <= MaxStaged /\ handleSaveModifiedMember(id)
  \/ \E id \in WorkedIds :
       Len(stagedAccountModifications) <= MaxStaged /\ handleSaveModifiedAccount(id)
  \/ \E idx \in 1..Len(stagedSafeModifications) : RemoveStagedSafeModification(idx)
  \/ \E idx \in 1..Len(stagedMemberModifications) : RemoveStagedMemberModification(idx)
  \/ \E idx \in 1..Len(stagedAccountModifications) : RemoveStagedAccountModification(idx)
  \/ \E tab \in ManageTabs :
       /\ KindOf(tab) = KindOf(activeTab)
       /\ fetches = <<>>
       /\ OpenManageTab(tab)
  \/ \E tab \in RemoveTabs :
       /\ activeTab = "review-deploy"
       /\ deployRuns # <<>>
       /\ DeployedOfKind(deployRuns[1], KindOf(tab)) = <<FirstSample(KindOf(tab))>>
       /\ fetches = <<>>
       /\ OpenManageTab(tab)
  \/ \E i \in 1..Len(fetches) : \E response \in ListResponses(fetches[i].kind) :
       FetchResponse(i, response)
  \/ SetActiveTab("review-deploy")
  \/ deployRuns = <<>> /\ DeployClick
  \/ \E r \in 1..Len(deployRuns), ok \in BOOLEAN : DeployResponse(r, ok)

SpecQueueIds == InitQueueIds /\ [][NextQueueIds]_vars

\* list holds no two entries with the same id.
DistinctIds(list) ==
  \A i, j \in 1..Len(list) : list[i].id = list[j].id => i = j

\* C29: the servers answering with lists of pairwise distinct ids, no
\* modification queue and no removal queue ever holds two entries with the
\* same id, whatever removals were staged, edits saved, staged entries
\* removed, mirrors refreshed and deployments run.
C29_QueueIdsDistinct ==
  /\ DistinctIds(stagedSafeRemovals)
  /\ DistinctIds(stagedMemberRemovals)
  /\ DistinctIds(stagedAccountRemovals)
  /\ DistinctIds(stagedSafeModifications)
  /\ DistinctIds(stagedMemberModifications)
  /\ DistinctIds(stagedAccountModifications)

\* After a deployment and a refresh that dropped SAFE-001 from the mirrors,
\* the removal queue and the modification queue of the safes hold SAFE-001
\* and SAFE-002 each.
C29_Witness ==
  /\ deployRuns # <<>>
  /\ deployRuns[1].done
  /\ IdsOf(availableSafesForRemoval) = {"Finance-01", "SAFE-002"}
  /\ Len(stagedSafeRemovals) = 2
  /\ IdsOf(stagedSafeRemovals) = {"SAFE-001", "SAFE-002"}
  /\ Len(stagedSafeModifications) = 2
  /\ IdsOf(stagedSafeModifications) = {"SAFE-001", "SAFE-002"}

-----------------------------------------------------------------------------
(* Scenario: two refreshes of one kind.  The removal section of a kind has *)
(* just been opened in an open session and its fetch is in flight; the     *)
(* operator ticks rows, opens the modify section of the kind, which starts *)
(* a second fetch, and starts and cancels edits there, while the server    *)
(* answers the fetches in any order.                                       *)

InitRefreshRace == InitRemove

NextRefreshRace ==
  \/ \E id \in WorkedIds : ToggleSelectedSafe(id)
  \/ \E id \in WorkedIds : ToggleSelectedMember(id)
  \/ \E id \in WorkedIds : ToggleSelectedAccount(id)
  \/ \E tab \in ModifyTabs :
       /\ activeTab \in RemoveTabs
       /\ KindOf(tab) = KindOf(activeTab)
       /\ OpenManageTab(tab)
  \/ \E id \in WorkedIds : StartEditSafe(id)
  \/ \E id \in WorkedIds : StartEditMember(id)
  \/ \E id \in WorkedIds : StartEditAccount(id)
  \/ \E i \in 1..Len(fetches) : \E response \in ListResponses(fetches[i].kind) :
       FetchResponse(i, response)

SpecRefreshRace == InitRefreshRace /\ [][NextRefreshRace]_vars

\* The fetch of the removal tab is the one in flight on the modify tab of
\* its kind, and the mirrors of the kind are not the initial ones: the fetch
\* issued later, by the modify tab, has been answered with a list.
LaterFetchAnsweredFirst ==
  /\ Len(fetches) = 1
  /\ fetches[1].tab \in RemoveTabs
  /\ activeTab \in ModifyTabs
  /\ KindOf(activeTab) = fetches[1].kind
  /\ \/ /\ fetches[1].kind = "safe"
        /\ availableSafesForModification # InitialSafeMirror
     \/ /\ fetches[1].kind = "member"
        /\ availableMembersForModification # InitialMemberMirror
     \/ /\ fetches[1].kind = "account"
        /\ availableAccountsForModification # InitialAccountMirror

\* C30: a mirror ends up holding the newest fetch: with two refreshes of a
\* kind in flight at once, the mirrors of the kind hold the answer to the
\* fetch issued later once both are answered, in whatever order the answers
\* arrive; so an answer to the fetch issued earlier that arrives after a
\* list was answered to the later one leaves the mirrors as they are.
C30_NewestFetchWins ==
  [][LaterFetchAnsweredFirst /\ fetches' = <<>> => UNCHANGED mirrorVars]_vars

-----------------------------------------------------------------------------
(* Spec: the application from its construction, every handler enabled      *)
(* wherever its control is rendered.  Staging is cut off at MaxStaged      *)
(* entries per queue and deploying at MaxRuns clicks.                      *)

FormInput ==
  \/ \E v \in SafeNameInputs : SetCustomSafeName(v)
  \/ \E v \in DescriptionInputs : SetSafeDescription(v)
  \/ \E v \in CPMInputs : SetManagingCPM(v)
  \/ \E m \in RetentionModes : SetRetentionMode(m)
  \/ \E v \in RetentionInputs : SetRetentionValue(v)
  \/ \E v \in TargetSafeInputs : SetTargetSafe(v)
  \/ \E v \in MemberNameInputs : SetMemberName(v)
  \/ \E v \in MemberDomains : SetMemberDomain(v)
  \/ \E t \in TemplateInputs : ApplyMemberTemplate(t)
  \/ \E perm \in PermissionInputs : ToggleMemberPermission(perm)
  \/ \E m \in StandardMemberInputs : toggleStandardMember(m)
  \/ \E v \in AccountTextInputs :
       \/ SetAccObject(v)
       \/ SetAccAddress(v)
       \/ SetAccUsername(v)
       \/ SetAccPassword(v)
       \/ SetAccPlatformId(v)
       \/ SetAccSafeName(v)
       \/ SetAccManualReason(v)
       \/ SetAccRemoteMachines(v)
  \/ ToggleAccAutoMgmt

Staging ==
  \/ Len(stagedSafes) < MaxStaged /\ handleAddSafeToStage
  \/ Len(stagedMembers) < MaxStaged /\ handleAddStandardMembers
  \/ Len(stagedMembers) < MaxStaged /\ handleAddCustomMember
  \/ Len(stagedAccounts) < MaxStaged /\ handleAddAccountToQueue
  \/ \E idx \in 1..(MaxStaged + 1) : RemoveStagedSafe(idx)
  \/ \E idx \in 1..(MaxStaged + 2) : RemoveStagedMember(idx)
  \/ \E idx \in 1..(MaxStaged + 1) : RemoveStagedAccount(idx)

LoginScreen ==
  \/ \E v \in VaultUrlInputs : SetVaultUrl(v)
  \/ \E v \in UsernameInputs : SetUsername(v)
  \/ \E v \in PasswordInputs : SetPassword(v)
  \/ authenticate
  \/ \E response \in LoginResponses : LoginResponse(response)
  \/ DebugLogin

MirrorRefresh ==
  \/ \E tab \in ManageTabs : Len(fetches) < MaxFetches /\ OpenManageTab(tab)
  \/ \E i \in 1..Len(fetches) : \E response \in ListResponses(fetches[i].kind) :
       FetchResponse(i, response)

Next ==
  \/ LoginScreen
  \/ Logout
  \/ \E tab \in PlainTabs : SetActiveTab(tab)
  \/ MirrorRefresh
  \/ NotificationTimeout
  \/ FormInput
  \/ Staging
  \/ NextModify
  \/ NextRemove
  \/ DeployClick
  \/ \E r \in 1..MaxRuns, ok \in BOOLEAN : DeployResponse(r, ok)

Spec == Init /\ [][Next]_vars

=============================================================================
